---- MODULE Spec2Model ----
(***************************************************************************)
(* A model of the Gecko Home Assistant integration: the connection-sharing *)
(* singleton (GeckoConnectionManager), the per-vessel coordinators, entry  *)
(* setup/unload and the platforms' entity discovery.                       *)
(*                                                                         *)
(* The event loop is cooperative: a coroutine runs without interruption    *)
(* until it awaits something that suspends it (an executor job, a sleep, a *)
(* cloud API call, a lock that is taken).  `running` names the coroutine   *)
(* that is in the middle of such an uninterrupted run; every step of the   *)
(* model that ends at a suspending await clears it.                        *)
(***************************************************************************)
EXTENDS Integers, Sequences, FiniteSets, TLC

(* ------------------------------ bounds --------------------------------- *)
\* operations started over one behaviour
MaxOps == 3
\* vendor client objects constructed over one behaviour
MaxClients == 2
\* GeckoMonitorConnection objects constructed over one behaviour
MaxConns == 2

NoMonitor == "None"
Tasks == {"t1", "t2"}
ClientIds == 1..MaxClients
ConnIds == 1..MaxConns
Monitors == {"m1", "m2"}
\* every connection is first opened with InitialUrl; a refresh returns it again or FreshUrl
InitialUrl == "u1"
FreshUrl == "u2"
Urls == {InitialUrl, FreshUrl}
\* a callback object: one handed in by a caller of the manager (gen and serial 0), or
\* the on_zone_update closure number `serial` of the coordinator of vessel `owner`
\* built by the setup number `gen` of the entry
Callback(owner, gen, serial) == [owner |-> owner, gen |-> gen, serial |-> serial]
Callbacks == {Callback("cb1", 0, 0), Callback("cb2", 0, 0)}
\* the inputs of the specification of the manager's interleavings
OneMonitor == {"m1"}
\* a vessel without monitorId has the key None, which dict.get accepts like any other
MonitorKeys == Monitors \cup {NoMonitor}
OneCallback == {Callback("cb1", 0, 0)}

NoTask == "None"
NoConn == 0
NoClient == 0
NoCallback == [owner |-> "None", gen |-> 0, serial |-> 0]
\* a falsy value returned for the URL (empty string, None, a non-string)
NoUrl == ""

(* ------------------------------ state ---------------------------------- *)
VARIABLES
    connections,      \* GeckoConnectionManager._connections: monitor id -> connection object
    conns,            \* the GeckoMonitorConnection objects (by identity)
    clients,          \* the vendor GeckoIotClient objects (by identity)
    connection_lock,  \* holder of GeckoConnectionManager._connection_lock
    waiters,          \* asyncio.Lock's FIFO queue of waiting tasks
    running,          \* the task in the middle of an uninterrupted run
    task,             \* each task's current operation, position and locals
    nops,             \* operations started so far
    unlocked,         \* accesses to the connection cache made without holding the lock
    vessels,          \* entry.data["vessels"]
    entry_state,      \* the host's state of the config entry
    runtime_data,     \* whether entry.runtime_data is set
    coordinators,     \* runtime_data.coordinators
    generation,       \* how many times the entry was set up
    nclosures,        \* on_zone_update closures built so far
    devices,          \* vessel ids in the device registry
    setup_log,        \* what _setup_vessels_and_gecko_clients did, vessel by vessel
    forwarded,        \* whether the platforms were forwarded for the current setup
    delivery,         \* the zone update the vendor's thread is handing to the callbacks
    vendor_thread_writes,  \* the fields written on the vendor's thread so far
    loop_calls,       \* coroutines scheduled on the event loop from the vendor's thread
    entities,         \* the entities added to the host, in the order they were added
    created,          \* each platform's set of keys of entities already created
    reported,         \* the (vessel, zone type, zone id) the coordinators reported to the platforms
    nevents,          \* events the vendor clients emitted so far
    unique_ids,       \* every (platform, vessel, zone id or key, unique_id) given to an entity so far
    call,             \* a call of one of the repository's plain functions: inputs, position, result
    shutdown          \* GeckoConnectionManager._shutdown_callbacks and the handling of the stop event

mvars == <<connections, conns, clients, connection_lock, waiters, running, task, nops, unlocked>>
evars == <<vessels, entry_state, runtime_data, coordinators, generation, nclosures, devices,
           setup_log, forwarded>>
pvars == <<delivery, vendor_thread_writes, loop_calls, entities, created, reported, nevents,
           unique_ids, call, shutdown>>
vars == <<mvars, evars, pvars>>

NoConnection ==
    [alloc |-> FALSE, monitor_id |-> NoMonitor, gecko_client |-> NoClient,
     websocket_url |-> NoUrl, update_callbacks |-> <<>>, is_connected |-> FALSE,
     connectivity_status |-> "None", refresh_token_callback |-> "None"]

NoClientObj ==
    [alloc |-> FALSE, monitor_id |-> NoMonitor, broker_url |-> NoUrl,
     token_refresh_callback |-> "None", connected |-> FALSE,
     disconnect_called |-> FALSE, transport_up |-> TRUE, handler |-> "None", conn |-> NoConn]

IdleTask ==
    [op |-> "None", pc |-> "idle", after |-> "", stack |-> <<>>, m |-> NoMonitor,
     conn |-> NoConn, cl |-> NoClient, url |-> NoUrl, cb |-> NoCallback,
     rcb |-> "None", res |-> "None", exc |-> FALSE, todo |-> {}, k |-> 0, i |-> 0,
     trace |-> <<>>, callbacks_before |-> <<>>]

InitManager ==
    /\ connections = [m \in MonitorKeys |-> NoConn]
    /\ conns = [c \in ConnIds |-> NoConnection]
    /\ clients = [c \in ClientIds |-> NoClientObj]
    /\ connection_lock = NoTask
    /\ waiters = <<>>
    /\ running = NoTask
    /\ task = [t \in Tasks |-> IdleTask]
    /\ nops = 0
    /\ unlocked = {}

(* ----------------------------- helpers --------------------------------- *)
InSeq(x, s) == \E i \in 1..Len(s) : s[i] = x

\* the update callbacks registered for monitor m (history, kept by a reconnecting task)
RegisteredFor(m) == IF connections[m] = NoConn THEN <<>> ELSE conns[connections[m]].update_callbacks

\* list.remove(x): drops the first occurrence
RemoveFirst(s, x) ==
    LET i == CHOOSE j \in 1..Len(s) : s[j] = x /\ \A k \in 1..(j-1) : s[k] # x
    IN  SubSeq(s, 1, i-1) \o SubSeq(s, i+1, Len(s))

FreeClients == {c \in ClientIds : ~clients[c].alloc}
FreeConns == {c \in ConnIds : ~conns[c].alloc}
Min(S) == CHOOSE x \in S : \A y \in S : x <= y

\* a vendor client is live: connect() succeeded and disconnect() was not called since
Live(c) == clients[c].alloc /\ clients[c].connected /\ ~clients[c].disconnect_called

Free(t) == task[t].pc \in {"idle", "done"}
CanRun(t) == running \in {NoTask, t}
\* a new coroutine runs in the first free task (the tasks are interchangeable)
CanEnter(t) ==
    /\ running = NoTask /\ Free(t)
    /\ (t = "t2" => ~Free("t1"))
\* a new operation, counted against MaxOps
CanStart(t) == CanEnter(t) /\ nops < MaxOps

\* the accesses `names`, recorded when the task does not hold the lock
Unlocked(t, names) == IF connection_lock = t THEN unlocked ELSE unlocked \cup names

\* leave the current function: back to the caller, or the operation is over
Return(r) ==
    IF r.stack = <<>>
      THEN [IdleTask EXCEPT !.pc = "done", !.op = r.op, !.m = r.m, !.cb = r.cb, !.res = r.res,
                            !.conn = IF r.res = "conn" THEN r.conn ELSE NoConn, !.exc = r.exc]
      ELSE [r EXCEPT !.pc = Head(r.stack), !.stack = Tail(r.stack)]

Runs(t, r) == IF r.pc = "done" THEN NoTask ELSE t

(* MqttTransporter(...) + GeckoIotClient(...) + the handlers registered on it *)
NewClient(m, url, rcb, handler, conn) ==
    [alloc |-> TRUE, monitor_id |-> m, broker_url |-> url,
     token_refresh_callback |-> rcb, connected |-> FALSE,
     disconnect_called |-> FALSE, transport_up |-> TRUE, handler |-> handler, conn |-> conn]

(* --------------------------- asyncio.Lock ------------------------------ *)
LockFree == connection_lock = NoTask /\ waiters = <<>>

\* `async with self._connection_lock` reached by record r: the lock is taken at
\* once when it is free and nobody waits for it, else the task queues up
Acquire(t, r, next) ==
    /\ connection_lock' = IF LockFree THEN t ELSE connection_lock
    /\ waiters' = IF LockFree THEN waiters ELSE Append(waiters, t)
    /\ task' = [task EXCEPT ![t] = IF LockFree THEN [r EXCEPT !.pc = next]
                                    ELSE [r EXCEPT !.pc = "wait_lock", !.after = next]]
    /\ running' = IF LockFree THEN t ELSE NoTask

\* the first waiter is woken when the lock is released
lock_wake(t) ==
    /\ task[t].pc = "wait_lock" /\ running = NoTask
    /\ connection_lock = NoTask /\ waiters # <<>> /\ Head(waiters) = t
    /\ connection_lock' = t
    /\ waiters' = Tail(waiters)
    /\ task' = [task EXCEPT ![t].pc = task[t].after, ![t].after = ""]
    /\ running' = t
    /\ UNCHANGED <<connections, conns, clients, nops, unlocked>>
    /\ UNCHANGED evars
    /\ UNCHANGED pvars

\* the function at record r returns (or raises) after leaving the `async with`
Leave(t, r) ==
    LET r2 == Return(r) IN
    /\ task' = [task EXCEPT ![t] = r2]
    /\ running' = Runs(t, r2)

(* ------------------ async_get_or_create_connection --------------------- *)
call_get_or_create_connection(t, Ms, Cbs, Rcbs) ==
    /\ CanStart(t)
    /\ \E m \in Ms, cb \in Cbs, rcb \in Rcbs :
         Acquire(t, [IdleTask EXCEPT !.op = "get_or_create", !.m = m, !.url = InitialUrl,
                                     !.cb = cb, !.rcb = rcb], "goc_body")
    /\ nops' = nops + 1
    /\ UNCHANGED <<connections, conns, clients, unlocked>>
    /\ UNCHANGED evars
    /\ UNCHANGED pvars

\* the callback is appended whatever the list holds
registered_again(update_callbacks, update_callback) ==
    IF update_callback # NoCallback
      THEN Append(update_callbacks, update_callback)
      ELSE update_callbacks

\* lines 114-115: `if update_callback and update_callback not in connection.update_callbacks`
registered(update_callbacks, update_callback) ==
    IF update_callback # NoCallback /\ ~InSeq(update_callback, update_callbacks)
      THEN Append(update_callbacks, update_callback)
      ELSE update_callbacks

\* lines 108-148: the lookup, and for a new monitor the construction up to the await of connect()
get_or_create_body(t) ==
    /\ task[t].pc = "goc_body" /\ CanRun(t)
    /\ LET r == task[t] IN
       IF connections[r.m] # NoConn
         THEN LET c == connections[r.m] IN
              /\ conns' = [conns EXCEPT ![c].update_callbacks = registered(@, r.cb)]
              /\ connection_lock' = NoTask
              /\ Leave(t, [r EXCEPT !.res = "conn", !.conn = c, !.exc = FALSE])
              /\ UNCHANGED clients
         ELSE \/ /\ FreeClients # {} /\ FreeConns # {}
                 /\ LET cl == Min(FreeClients)
                        c == Min(FreeConns) IN
                    /\ clients' = [clients EXCEPT ![cl] = NewClient(r.m, r.url, r.rcb, "copy", c)]
                    /\ conns' = [conns EXCEPT ![c] =
                          [alloc |-> TRUE, monitor_id |-> r.m, gecko_client |-> cl,
                           websocket_url |-> r.url,
                           update_callbacks |-> IF r.cb # NoCallback THEN <<r.cb>> ELSE <<>>,
                           is_connected |-> FALSE, connectivity_status |-> "None",
                           refresh_token_callback |-> r.rcb]]
                    /\ task' = [task EXCEPT ![t] = [r EXCEPT !.pc = "goc_connect", !.conn = c, !.cl = cl,
                                                              !.trace = Append(@, "connect")]]
                 /\ running' = NoTask
                 /\ UNCHANGED connection_lock
              \/ \* the transporter's or the client's constructor raises: logged, re-raised
                 /\ connection_lock' = NoTask
                 /\ Leave(t, [r EXCEPT !.res = "None", !.exc = TRUE])
                 /\ UNCHANGED <<clients, conns>>
    /\ UNCHANGED <<connections, waiters, nops, unlocked>>
    /\ UNCHANGED evars
    /\ UNCHANGED pvars

\* lines 148-159: connect() returns or raises
get_or_create_connected(t) ==
    /\ task[t].pc = "goc_connect" /\ running = NoTask
    /\ LET r == task[t] IN
       \/ /\ clients' = [clients EXCEPT ![r.cl].connected = TRUE]
          /\ conns' = [conns EXCEPT ![r.conn].is_connected = TRUE]
          /\ connections' = [connections EXCEPT ![r.m] = r.conn]
          /\ Leave(t, [r EXCEPT !.res = "conn", !.exc = FALSE])
       \/ /\ Leave(t, [r EXCEPT !.res = "None", !.exc = TRUE])
          /\ UNCHANGED <<clients, conns, connections>>
    /\ connection_lock' = NoTask
    /\ UNCHANGED <<waiters, nops, unlocked>>
    /\ UNCHANGED evars
    /\ UNCHANGED pvars

(* ------------------------ async_remove_callback ------------------------ *)
\* the call builds nothing and awaits nothing but the lock: it is not counted as
\* an operation
call_remove_callback(t, Ms, Cbs) ==
    /\ CanEnter(t)
    /\ \E m \in Ms, cb \in Cbs :
         /\ Acquire(t, [IdleTask EXCEPT !.op = "remove_callback", !.m = m, !.cb = cb], "rm_body")
    /\ UNCHANGED <<connections, conns, clients, nops, unlocked>>
    /\ UNCHANGED evars
    /\ UNCHANGED pvars

\* lines 170-174
remove_callback_body(t) ==
    /\ task[t].pc = "rm_body" /\ CanRun(t)
    /\ LET r == task[t]
           c == connections[r.m] IN
       /\ conns' = IF c # NoConn /\ InSeq(r.cb, conns[c].update_callbacks)
                     THEN [conns EXCEPT ![c].update_callbacks = RemoveFirst(@, r.cb)]
                     ELSE conns
       /\ Leave(t, r)
    /\ connection_lock' = NoTask
    /\ UNCHANGED <<connections, clients, waiters, nops, unlocked>>
    /\ UNCHANGED evars
    /\ UNCHANGED pvars

(* ----------------------- async_disconnect_monitor ---------------------- *)
call_disconnect_monitor(t, Ms) ==
    /\ CanStart(t)
    /\ \E m \in Ms :
         Acquire(t, [IdleTask EXCEPT !.op = "disconnect_monitor", !.m = m], "dm_body")
    /\ nops' = nops + 1
    /\ UNCHANGED <<connections, conns, clients, unlocked>>
    /\ UNCHANGED evars
    /\ UNCHANGED pvars

\* the client is disconnected whatever the flag says
disconnect_due_unflagged(connection) == connection.gecko_client # NoClient

\* line 186: `if connection.is_connected and connection.gecko_client`
disconnect_due(connection) == connection.is_connected /\ connection.gecko_client # NoClient

\* lines 181-187, and 193 when there is nothing to disconnect
disconnect_monitor_body(t) ==
    /\ task[t].pc = "dm_body" /\ CanRun(t)
    /\ LET r == task[t]
           c == connections[r.m] IN
       IF c = NoConn
         THEN /\ connection_lock' = NoTask
              /\ Leave(t, r)
              /\ UNCHANGED connections
         ELSE IF disconnect_due(conns[c])
           THEN /\ task' = [task EXCEPT ![t] = [r EXCEPT !.pc = "dm_disconnect", !.conn = c,
                                                          !.trace = Append(@, "disconnect")]]
                /\ running' = NoTask
                /\ UNCHANGED <<connection_lock, connections>>
           ELSE /\ connections' = [connections EXCEPT ![r.m] = NoConn]
                /\ connection_lock' = NoTask
                /\ Leave(t, r)
    /\ UNCHANGED <<conns, clients, waiters, nops, unlocked>>
    /\ UNCHANGED evars
    /\ UNCHANGED pvars

\* lines 187-193: disconnect() returns or raises; the entry is deleted either way
disconnect_monitor_disconnected(t) ==
    /\ task[t].pc = "dm_disconnect" /\ running = NoTask
    /\ LET r == task[t]
           cl == conns[r.conn].gecko_client IN
       /\ clients' = [clients EXCEPT ![cl].disconnect_called = TRUE]
       /\ \/ conns' = [conns EXCEPT ![r.conn].is_connected = FALSE]
          \/ UNCHANGED conns      \* disconnect() raised: logged
       /\ connections' = [connections EXCEPT ![r.m] = NoConn]
       /\ Leave(t, [r EXCEPT !.conn = NoConn])
    /\ connection_lock' = NoTask
    /\ UNCHANGED <<waiters, nops, unlocked>>
    /\ UNCHANGED evars
    /\ UNCHANGED pvars

(* ----------------------- async_reconnect_monitor ----------------------- *)
\* lines 203-221: the membership check and the request of the fresh URL, outside the lock
call_reconnect_monitor(t, Ms) ==
    /\ CanStart(t)
    /\ \E m \in Ms :
         LET c == connections[m]
             r == [IdleTask EXCEPT !.op = "reconnect_monitor", !.m = m] IN
         IF c = NoConn
           THEN Leave(t, [r EXCEPT !.res = "False"])
           ELSE IF clients[conns[c].gecko_client].token_refresh_callback = "None"
             THEN Leave(t, [r EXCEPT !.res = "False"])
             ELSE /\ task' = [task EXCEPT ![t] = [r EXCEPT !.pc = "rc_url", !.conn = c,
                                 !.rcb = clients[conns[c].gecko_client].token_refresh_callback,
                                 !.trace = <<"url">>, !.callbacks_before = RegisteredFor(m)]]
                  /\ running' = NoTask
    /\ nops' = nops + 1
    /\ UNCHANGED <<connections, conns, clients, connection_lock, waiters, unlocked>>
    /\ UNCHANGED evars
    /\ UNCHANGED pvars

\* lines 221-228: the refresh callback returns a URL, returns nothing usable, or raises
reconnect_monitor_url(t) ==
    /\ task[t].pc = "rc_url" /\ running = NoTask
    /\ LET r == task[t] IN
       \/ \E u \in Urls :
            /\ Acquire(t, [r EXCEPT !.url = u], "rc_locked")
            /\ UNCHANGED <<conns, unlocked>>
       \/ /\ Leave(t, [r EXCEPT !.res = "False"])
          /\ UNCHANGED <<conns, connection_lock, waiters, unlocked>>
       \/ \* line 280, in the handler of the exception
          /\ conns' = [conns EXCEPT ![r.conn].is_connected = FALSE]
          /\ unlocked' = Unlocked(t, {"reconnect_monitor: connection.is_connected = False"})
          /\ Leave(t, [r EXCEPT !.res = "False"])
          /\ UNCHANGED <<connection_lock, waiters>>
    /\ UNCHANGED <<connections, clients, nops>>
    /\ UNCHANGED evars
    /\ UNCHANGED pvars

\* lines 229-231 and 237; the connection acted upon was looked up at line 203,
\* before the lock was taken
reconnect_monitor_locked(t) ==
    /\ task[t].pc = "rc_locked" /\ CanRun(t)
    /\ unlocked' = unlocked \cup {"reconnect_monitor: monitor_id in _connections"}
    /\ LET r == task[t] IN
       IF conns[r.conn].is_connected /\ conns[r.conn].gecko_client # NoClient
         THEN task' = [task EXCEPT ![t] = [r EXCEPT !.pc = "rc_disconnect",
                                                     !.trace = Append(@, "disconnect")]]
         ELSE task' = [task EXCEPT ![t] = [r EXCEPT !.pc = "rc_sleep",
                                                     !.trace = Append(@, "sleep")]]
    /\ running' = NoTask
    /\ UNCHANGED <<connections, conns, clients, connection_lock, waiters, nops>>
    /\ UNCHANGED evars
    /\ UNCHANGED pvars

\* lines 231-237: disconnect() returns or raises (a warning); the flag is cleared either way
reconnect_monitor_disconnected(t) ==
    /\ task[t].pc = "rc_disconnect" /\ running = NoTask
    /\ LET r == task[t]
           cl == conns[r.conn].gecko_client IN
       /\ clients' = [clients EXCEPT ![cl].disconnect_called = TRUE]
       /\ conns' = [conns EXCEPT ![r.conn].is_connected = FALSE]
       /\ task' = [task EXCEPT ![t] = [r EXCEPT !.pc = "rc_sleep", !.trace = Append(@, "sleep")]]
    /\ running' = NoTask
    /\ UNCHANGED <<connections, connection_lock, waiters, nops, unlocked>>
    /\ UNCHANGED evars
    /\ UNCHANGED pvars

\* lines 237-272: after the delay the new client is built and put on the connection
reconnect_monitor_slept(t) ==
    /\ task[t].pc = "rc_sleep" /\ running = NoTask
    /\ LET r == task[t] IN
       \/ /\ FreeClients # {}
          /\ LET cl == Min(FreeClients) IN
             /\ clients' = [clients EXCEPT ![cl] = NewClient(r.m, r.url, r.rcb, "live", r.conn)]
             /\ conns' = [conns EXCEPT ![r.conn].gecko_client = cl, ![r.conn].websocket_url = r.url]
             /\ task' = [task EXCEPT ![t] = [r EXCEPT !.pc = "rc_connect", !.cl = cl,
                                                       !.trace = Append(@, "connect")]]
          /\ running' = NoTask
          /\ UNCHANGED <<connection_lock, unlocked>>
       \/ \* a constructor raises: the lock is released, then line 280
          /\ connection_lock' = NoTask
          /\ conns' = [conns EXCEPT ![r.conn].is_connected = FALSE]
          /\ unlocked' = unlocked \cup {"reconnect_monitor: connection.is_connected = False"}
          /\ Leave(t, [r EXCEPT !.res = "False"])
          /\ UNCHANGED clients
    /\ UNCHANGED <<connections, waiters, nops>>
    /\ UNCHANGED evars
    /\ UNCHANGED pvars

\* lines 272-281: connect() returns or raises
reconnect_monitor_connected(t) ==
    /\ task[t].pc = "rc_connect" /\ running = NoTask
    /\ LET r == task[t] IN
       \/ /\ clients' = [clients EXCEPT ![r.cl].connected = TRUE]
          /\ conns' = [conns EXCEPT ![r.conn].is_connected = TRUE]
          /\ Leave(t, [r EXCEPT !.res = "True"])
          /\ UNCHANGED unlocked
       \/ \* the lock is released, then line 280
          /\ conns' = [conns EXCEPT ![r.conn].is_connected = FALSE]
          /\ unlocked' = unlocked \cup {"reconnect_monitor: connection.is_connected = False"}
          /\ Leave(t, [r EXCEPT !.res = "False"])
          /\ UNCHANGED clients
    /\ connection_lock' = NoTask
    /\ UNCHANGED <<connections, waiters, nops>>
    /\ UNCHANGED evars
    /\ UNCHANGED pvars

(* -------------------- async_refresh_connection_token ------------------- *)
call_refresh_connection_token(t, Ms) ==
    /\ CanStart(t)
    /\ \E m \in Ms :
         Acquire(t, [IdleTask EXCEPT !.op = "refresh_connection_token", !.m = m], "rf_body")
    /\ nops' = nops + 1
    /\ UNCHANGED <<connections, conns, clients, unlocked>>
    /\ UNCHANGED evars
    /\ UNCHANGED pvars

\* lines 305-318
refresh_connection_token_body(t) ==
    /\ task[t].pc = "rf_body" /\ CanRun(t)
    /\ LET r == task[t]
           c == connections[r.m] IN
       IF c = NoConn
         THEN /\ connection_lock' = NoTask
              /\ Leave(t, [r EXCEPT !.res = "False"])
         ELSE /\ IF conns[c].gecko_client # NoClient /\ conns[c].is_connected
                   THEN task' = [task EXCEPT ![t] = [r EXCEPT !.pc = "rf_disconnect", !.conn = c,
                                                               !.trace = <<"disconnect">>,
                                                               !.callbacks_before = RegisteredFor(r.m)]]
                   ELSE task' = [task EXCEPT ![t] = [r EXCEPT !.pc = "rf_sleep", !.conn = c,
                                                               !.trace = <<"sleep">>,
                                                               !.callbacks_before = RegisteredFor(r.m)]]
              /\ running' = NoTask
              /\ UNCHANGED connection_lock
    /\ UNCHANGED <<connections, conns, clients, waiters, nops, unlocked>>
    /\ UNCHANGED evars
    /\ UNCHANGED pvars

\* lines 314-318 and 363-367: disconnect() returns, or raises and the refresh is given up
refresh_connection_token_disconnected(t) ==
    /\ task[t].pc = "rf_disconnect" /\ running = NoTask
    /\ LET r == task[t]
           cl == conns[r.conn].gecko_client IN
       /\ clients' = [clients EXCEPT ![cl].disconnect_called = TRUE]
       /\ \/ /\ conns' = [conns EXCEPT ![r.conn].is_connected = FALSE]
             /\ task' = [task EXCEPT ![t] = [r EXCEPT !.pc = "rf_sleep", !.trace = Append(@, "sleep")]]
             /\ running' = NoTask
             /\ UNCHANGED connection_lock
          \/ /\ connection_lock' = NoTask
             /\ Leave(t, [r EXCEPT !.res = "False"])
             /\ UNCHANGED conns
    /\ UNCHANGED <<connections, waiters, nops, unlocked>>
    /\ UNCHANGED evars
    /\ UNCHANGED pvars

\* lines 318-328: after the delay the stored refresh callback is looked up and called
refresh_connection_token_slept(t) ==
    /\ task[t].pc = "rf_sleep" /\ running = NoTask
    /\ LET r == task[t] IN
       IF conns[r.conn].refresh_token_callback = "None"
         THEN /\ connection_lock' = NoTask
              /\ Leave(t, [r EXCEPT !.res = "False"])
         ELSE /\ task' = [task EXCEPT ![t] = [r EXCEPT !.pc = "rf_url",
                             !.rcb = conns[r.conn].refresh_token_callback,
                             !.trace = Append(@, "url")]]
              /\ running' = NoTask
              /\ UNCHANGED connection_lock
    /\ UNCHANGED <<connections, conns, clients, waiters, nops, unlocked>>
    /\ UNCHANGED evars
    /\ UNCHANGED pvars

\* lines 328-354: the callback's result; the new client is built and put on the connection
refresh_connection_token_url(t) ==
    /\ task[t].pc = "rf_url" /\ running = NoTask
    /\ LET r == task[t] IN
       \/ \E u \in Urls :
            /\ FreeClients # {}
            /\ LET cl == Min(FreeClients) IN
               /\ clients' = [clients EXCEPT ![cl] = NewClient(r.m, u, r.rcb, "copy", r.conn)]
               /\ conns' = [conns EXCEPT ![r.conn].websocket_url = u, ![r.conn].gecko_client = cl]
               /\ task' = [task EXCEPT ![t] = [r EXCEPT !.pc = "rf_connect", !.url = u, !.cl = cl,
                                                         !.trace = @ \o <<"sleep", "connect">>]]
            /\ running' = NoTask
            /\ UNCHANGED connection_lock
       \/ \* the constructor raises after the URL was stored
          \E u \in Urls :
            /\ conns' = [conns EXCEPT ![r.conn].websocket_url = u]
            /\ connection_lock' = NoTask
            /\ Leave(t, [r EXCEPT !.res = "False"])
            /\ UNCHANGED clients
       \/ \* no usable URL, or the callback raised
          /\ connection_lock' = NoTask
          /\ Leave(t, [r EXCEPT !.res = "False"])
          /\ UNCHANGED <<clients, conns>>
    /\ UNCHANGED <<connections, waiters, nops, unlocked>>
    /\ UNCHANGED evars
    /\ UNCHANGED pvars

\* lines 354-367: after the second delay connect() returns or raises
refresh_connection_token_connected(t) ==
    /\ task[t].pc = "rf_connect" /\ running = NoTask
    /\ LET r == task[t] IN
       \/ /\ clients' = [clients EXCEPT ![r.cl].connected = TRUE]
          /\ conns' = [conns EXCEPT ![r.conn].is_connected = TRUE]
          /\ Leave(t, [r EXCEPT !.res = "True"])
       \/ /\ Leave(t, [r EXCEPT !.res = "False"])
          /\ UNCHANGED <<clients, conns>>
    /\ connection_lock' = NoTask
    /\ UNCHANGED <<connections, waiters, nops, unlocked>>
    /\ UNCHANGED evars
    /\ UNCHANGED pvars

(* ------------------------------ the entry ------------------------------ *)
\* the vessel ids of an account, in the order the cloud lists them
VesselIdOf == <<"v1", "v2">>
ZoneTypes == {"LIGHTING_ZONE", "FLOW_ZONE", "TEMPERATURE_CONTROL_ZONE"}
NoZones == [z \in ZoneTypes |-> <<>>]
MAX_CONSECUTIVE_FAILURES == 2

Vessel(i, m, nm) == [vesselId |-> VesselIdOf[i], monitorId |-> m, name |-> nm]

\* the vessel lists an entry may hold: vessel i has the id VesselIdOf[i], a
\* monitorId of Ms (None for a vessel without one) and a name of Ns
VesselLists(Ms, Ns) ==
    UNION {{[i \in 1..n |-> Vessel(i, f[i][1], f[i][2])] : f \in [1..n -> Ms \X Ns]} :
             n \in 0..Len(VesselIdOf)}

InitEntry(VL) ==
    /\ vessels \in VL
    /\ entry_state = "not_loaded"
    /\ runtime_data = FALSE
    /\ coordinators = <<>>
    /\ generation = 0
    /\ nclosures = 0
    /\ devices = {}
    /\ setup_log = <<>>
    /\ forwarded = FALSE

\* GeckoVesselCoordinator.__init__
NewCoordinator(v) ==
    [vessel_id |-> v.vesselId, monitor_id |-> v.monitorId, vessel_name |-> v.name,
     zones |-> NoZones, has_initial_zones |-> FALSE, initial_zones_loaded_event |-> FALSE,
     zone_update_callbacks |-> <<>>, consecutive_failures |-> 0,
     \* what the polls of this coordinator found, where the polls are logged
     polls |-> <<>>]

\* coordinators built only for the vessels that have a monitor
CreateCoordinators_monitored(vs) ==
    LET ms == SelectSeq(vs, LAMBDA v : v.monitorId # NoMonitor)
    IN  [i \in 1..Len(ms) |-> NewCoordinator(ms[i])]

\* async_setup_entry, lines 78-91: one coordinator per vessel, in the order of the list
CreateCoordinators(vs) == [i \in 1..Len(vs) |-> NewCoordinator(vs[i])]

\* a shutdown that leaves the platforms' callbacks registered
coordinator_async_shutdown_keeps_callbacks(c) == [c EXCEPT !.zones = NoZones]

\* GeckoVesselCoordinator.async_shutdown: nothing is disconnected
coordinator_async_shutdown(c) ==
    [c EXCEPT !.zones = NoZones, !.zone_update_callbacks = <<>>]

LogRow(i, device, result) ==
    [vessel |-> vessels[i].vesselId, coordinator |-> coordinators[i].vessel_id,
     device |-> device, result |-> result, success |-> "None"]

MinOf(a, b) == IF a <= b THEN a ELSE b

\* a loop that stops at the first vessel that fails
vessel_failed_leaves_loop(i) == Len(vessels) + 1

\* _setup_vessels_and_gecko_clients, lines 145-152: the try is inside the loop, so
\* after the failure of vessel i is logged the loop goes on with the next vessel
vessel_failed(i) == i + 1

(* ------------------------------ the platforms --------------------------- *)
Connected(m) == connections[m] # NoConn /\ conns[connections[m]].is_connected

Platforms == {"light", "fan", "climate"}
ZoneTypeOf(p) ==
    CASE p = "light" -> "LIGHTING_ZONE"
      [] p = "fan" -> "FLOW_ZONE"
      [] p = "climate" -> "TEMPERATURE_CONTROL_ZONE"

\* the names a vessel may have
VesselNames == {"Spa", "SPA"}
\* str.lower()
Lower(name) == CASE name = "Spa" -> "spa" [] name = "SPA" -> "spa" [] OTHER -> name

\* the key under which a platform remembers that it created the entity of a zone:
\* light.py line 65, fan.py line 42, climate.py lines 48 and 59
Key(p, c, zone) ==
    CASE p = "light" -> <<Lower(c.vessel_name), "light", zone>>
      [] p = "fan" -> <<c.vessel_name, "pump", zone>>
      [] p = "climate" -> <<"entry", c.vessel_id, zone>>

\* an id built from what the entity finds when it is created
UniqueId_by_setup(p, c, zone) == <<"entry", generation, c.vessel_id, p, zone>>

\* light.py line 103, fan.py line 73, climate.py line 99, select.py line 87,
\* binary_sensor.py line 113
UniqueId(p, c, zone) ==
    CASE p = "light" -> <<"entry", c.vessel_name, "light", zone>>
      [] p = "fan" -> <<"entry", c.vessel_name, "pump", zone>>
      [] p = "climate" -> <<"entry", c.vessel_id, "climate", zone>>
      [] p = "select" -> <<c.vessel_id, "watercare_mode">>
      [] p = "binary_sensor" -> <<"entry", c.vessel_id, zone>>

\* the vendor client's is_connected property, for the client objects cs
IsUp(cs, cl) ==
    /\ cl # NoClient
    /\ cs[cl].alloc /\ cs[cl].connected /\ ~cs[cl].disconnect_called /\ cs[cl].transport_up
ClientIsConnected(cl) == IsUp(clients, cl)

\* GeckoVesselCoordinator.get_gecko_client
get_gecko_client(c) ==
    IF Connected(c.monitor_id) THEN conns[connections[c.monitor_id]].gecko_client ELSE NoClient

\* GeckoEntityAvailabilityMixin._get_gecko_client_sync
get_gecko_client_sync(m) ==
    IF connections[m] # NoConn THEN conns[connections[m]].gecko_client ELSE NoClient

\* the entity of a zone once added to the host: async_added_to_hass registers its
\* connectivity callback on the coordinator's client and reads its availability
Entity(p, c, zone) ==
    [platform |-> p, vessel_id |-> c.vessel_id, monitor_id |-> c.monitor_id, zone |-> zone,
     unique_id |-> UniqueId(p, c, zone),
     registered |-> get_gecko_client(c),
     available |-> ClientIsConnected(get_gecko_client_sync(c.monitor_id))]

\* binary_sensor.py lines 25-50: the keys of BINARY_SENSOR_DESCRIPTIONS
SensorKeys == <<"gateway_status", "vessel_status", "transport_connection", "overall_connection">>

\* a binary sensor has no connectivity callback: it is a plain CoordinatorEntity
BinarySensor(c, key) ==
    [platform |-> "binary_sensor", vessel_id |-> c.vessel_id, monitor_id |-> c.monitor_id,
     zone |-> key, unique_id |-> UniqueId("binary_sensor", c, key),
     registered |-> NoClient, available |-> TRUE]

\* select.py lines 48-60 and binary_sensor.py lines 74-84: one watercare select per
\* coordinator, then every binary sensor of every coordinator
RECURSIVE Selects(_, _)
Selects(cs, k) ==
    IF k > Len(cs) THEN <<>>
    ELSE <<Entity("select", cs[k], "watercare_mode")>> \o Selects(cs, k + 1)
RECURSIVE BinarySensors(_, _)
BinarySensors(cs, k) ==
    IF k > Len(cs) THEN <<>>
    ELSE [i \in 1..Len(SensorKeys) |-> BinarySensor(cs[k], SensorKeys[i])]
            \o BinarySensors(cs, k + 1)

\* the ids given to the entities es
IdsOf(es) ==
    {<<es[i].platform, es[i].vessel_id, es[i].zone, es[i].unique_id>> : i \in 1..Len(es)}

\* get_zones_by_type as a discovery callback of platform p calls it on coordinator
\* c: the (vessel, zone type, zone id) the coordinator reports to the platform
Reports(p, c) ==
    {<<c.vessel_id, ZoneTypeOf(p), c.zones[ZoneTypeOf(p)][i]>> :
        i \in 1..Len(c.zones[ZoneTypeOf(p)])}

\* one run of a platform's discovery callback for coordinator c, on the entities
\* and keys in acc
Discover(p, c, acc) ==
    LET new == SelectSeq(c.zones[ZoneTypeOf(p)], LAMBDA z : Key(p, c, z) \notin acc.created[p])
    IN  [entities |-> acc.entities \o [i \in 1..Len(new) |-> Entity(p, c, new[i])],
         created |-> [acc.created EXCEPT ![p] = @ \cup {Key(p, c, new[i]) : i \in 1..Len(new)}]]

\* a platform's async_setup_entry: the first discovery for each coordinator, in order
RECURSIVE PlatformSetup(_, _, _)
PlatformSetup(p, k, acc) ==
    IF k > Len(coordinators) THEN acc
    ELSE PlatformSetup(p, k + 1, Discover(p, coordinators[k], acc))

\* _async_handle_zone_update, lines 82-90: the registered callbacks, in order
RECURSIVE RunCallbacks(_, _, _)
RunCallbacks(cbs, c, acc) ==
    IF cbs = <<>> THEN acc
    ELSE RunCallbacks(Tail(cbs), c, Discover(Head(cbs), c, acc))

\* no function call under way
\* GeckoConnectionManager.__init__, line 56: no shutdown callback, and the stop event
\* (listened to once, lines 59-61) has not fired; monitor_ids is the list made at line
\* 286, existed the connection objects stored at that moment, called the callbacks
\* invoked by the loop of lines 291-295
NoShutdown ==
    [shutdown_callbacks |-> <<>>, fired |-> FALSE, monitor_ids |-> <<>>, existed |-> {},
     called |-> <<>>, finished |-> FALSE]

NoCall == [fn |-> "None", pc |-> "idle"]

PlatformsIdle ==
    /\ delivery = [active |-> FALSE, done |-> FALSE, client |-> NoClient, conn |-> NoConn,
                   current |-> FALSE, zones |-> NoZones, snapshot |-> <<>>, start |-> <<>>,
                   idx |-> 0, delivered |-> <<>>, raised |-> FALSE]
    /\ vendor_thread_writes = {}
    /\ loop_calls = <<>>
    /\ entities = <<>>
    /\ created = [p \in Platforms |-> {}]
    /\ reported = {}
    /\ nevents = 0
    /\ unique_ids = {}
    /\ shutdown = NoShutdown

InitPlatforms == PlatformsIdle /\ call = NoCall

\* async_setup_entry, lines 52-64: the host starts the setup
call_setup_entry(t) ==
    /\ CanStart(t)
    /\ entry_state \in {"not_loaded", "setup_retry"}
    /\ \A u \in Tasks : task[u].op = "poll" => Free(u)
    /\ task' = [task EXCEPT ![t] = [IdleTask EXCEPT !.op = "setup_entry", !.pc = "se_impl"]]
    /\ running' = NoTask
    /\ nops' = nops + 1
    /\ entry_state' = "setup_in_progress"
    /\ setup_log' = <<>>
    /\ forwarded' = FALSE
    /\ UNCHANGED <<connections, conns, clients, connection_lock, waiters, unlocked>>
    /\ UNCHANGED <<vessels, runtime_data, coordinators, generation, nclosures, devices>>
    /\ UNCHANGED pvars

\* lines 56-99: the OAuth implementation is found or not; the coordinators are built
setup_entry_coordinators(t) ==
    /\ task[t].pc = "se_impl" /\ running = NoTask
    /\ \/ /\ coordinators' = CreateCoordinators(vessels)
          /\ runtime_data' = TRUE
          /\ generation' = generation + 1
          /\ task' = [task EXCEPT ![t].pc = "se_vessel", ![t].i = 1]
          /\ running' = t
          /\ UNCHANGED entry_state
       \/ /\ entry_state' = "setup_error"
          /\ Leave(t, [task[t] EXCEPT !.exc = TRUE])
          /\ UNCHANGED <<coordinators, runtime_data, generation>>
    /\ UNCHANGED <<connections, conns, clients, connection_lock, waiters, nops, unlocked>>
    /\ UNCHANGED <<vessels, nclosures, devices, setup_log, forwarded>>
    /\ UNCHANGED pvars

\* what the device registry and the livestream call may do
DeviceOutcomes == {"ok", "device_error"}
UrlOutcomes == {"url", "no_url", "livestream_error"}

\* _setup_vessels_and_gecko_clients, lines 127-149, and _setup_vessel_gecko_client,
\* lines 191-203: the next vessel of zip(vessels, coordinators), up to the await of the
\* livestream call; an exception of the device registry is caught and logged at line 151
setup_entry_vessel(t, Ds) ==
    /\ task[t].pc = "se_vessel" /\ running = t
    /\ LET r == task[t]
           n == MinOf(Len(vessels), Len(coordinators)) IN
       IF r.i > n
         THEN /\ task' = [task EXCEPT ![t].pc = "se_forward"]
              /\ running' = NoTask
              /\ UNCHANGED <<devices, setup_log>>
         ELSE \E d \in Ds :
                IF d = "device_error"
                  THEN /\ setup_log' = Append(setup_log, LogRow(r.i, FALSE, d))
                       /\ task' = [task EXCEPT ![t].i = vessel_failed(r.i)]
                       /\ running' = t
                       /\ UNCHANGED devices
                  ELSE /\ devices' = devices \cup {vessels[r.i].vesselId}
                       /\ IF vessels[r.i].monitorId = NoMonitor
                            THEN /\ setup_log' = Append(setup_log, LogRow(r.i, TRUE, "no_monitor"))
                                 /\ task' = [task EXCEPT ![t].i = r.i + 1]
                                 /\ running' = t
                            ELSE /\ task' = [task EXCEPT ![t].pc = "se_url"]
                                 /\ running' = NoTask
                                 /\ UNCHANGED setup_log
    /\ UNCHANGED <<connections, conns, clients, connection_lock, waiters, nops, unlocked>>
    /\ UNCHANGED <<vessels, entry_state, runtime_data, coordinators, generation, nclosures, forwarded>>
    /\ UNCHANGED pvars

\* _setup_vessel_gecko_client, lines 203-218, and async_setup_monitor_connection,
\* lines 240-281: the livestream call returns a broker URL, none, or raises
setup_entry_url(t, Us) ==
    /\ task[t].pc = "se_url" /\ running = NoTask
    /\ LET r == task[t] IN
       \E result \in Us :
          IF result = "url"
            THEN /\ nclosures' = nclosures + 1
                 /\ Acquire(t, [r EXCEPT !.m = coordinators[r.i].monitor_id, !.url = InitialUrl,
                                   !.cb = Callback(coordinators[r.i].vessel_id, generation, nclosures + 1),
                                   !.rcb = "cb", !.stack = <<"se_connected">> \o @], "goc_body")
                 /\ UNCHANGED setup_log
            ELSE /\ setup_log' = Append(setup_log, LogRow(r.i, TRUE, result))
                 /\ task' = [task EXCEPT ![t].pc = "se_vessel",
                                ![t].i = IF result = "no_url" THEN r.i + 1 ELSE vessel_failed(r.i)]
                 /\ running' = t
                 /\ UNCHANGED <<nclosures, connection_lock, waiters>>
    /\ UNCHANGED <<connections, conns, clients, nops, unlocked>>
    /\ UNCHANGED <<vessels, entry_state, runtime_data, coordinators, generation, devices, forwarded>>
    /\ UNCHANGED pvars

\* the exception of the manager leaves the coordinator as it came
async_setup_monitor_connection_raises(raised) == IF raised THEN "raised" ELSE "True"

\* coordinator.async_setup_monitor_connection, lines 240-288: what the call gives when
\* async_get_or_create_connection raised or returned; `except Exception` returns False
async_setup_monitor_connection(raised) == IF raised THEN "False" ELSE "True"

\* async_setup_monitor_connection, lines 283-288, _setup_vessel_gecko_client, lines
\* 220-232 (a False success is raised as ConnectionError, and whatever is raised is
\* logged and re-raised), and the handler at line 151: the connection is there or the
\* failure is logged
setup_entry_connected(t) ==
    /\ task[t].pc = "se_connected" /\ CanRun(t)
    /\ LET r == task[t]
           success == async_setup_monitor_connection(r.exc) IN
       /\ setup_log' = Append(setup_log,
             [LogRow(r.i, TRUE, IF success = "True" THEN "connected" ELSE "connect_error")
                EXCEPT !.success = success])
       /\ task' = [task EXCEPT ![t] = [r EXCEPT !.pc = "se_vessel", !.exc = FALSE,
                      !.i = IF r.exc THEN vessel_failed(r.i) ELSE r.i + 1,
                      !.res = "None", !.conn = NoConn, !.cl = NoClient, !.cb = NoCallback,
                      !.m = NoMonitor, !.url = NoUrl, !.rcb = "None", !.trace = <<>>]]
    /\ running' = t
    /\ UNCHANGED <<connections, conns, clients, connection_lock, waiters, nops, unlocked>>
    /\ UNCHANGED <<vessels, entry_state, runtime_data, coordinators, generation, nclosures,
                   devices, forwarded>>
    /\ UNCHANGED pvars

\* the platforms' async_setup_entry: each registers its discovery callback
PlatformCallbacks == <<"light", "fan", "climate">>

\* async_setup_entry, lines 111-116: the platforms are forwarded (each starts with
\* no key remembered, discovers what the coordinators already hold and registers its
\* callback) and True is returned
setup_entry_forward(t) ==
    /\ task[t].pc = "se_forward" /\ running = NoTask
    /\ forwarded' = TRUE
    /\ entry_state' = "loaded"
    /\ coordinators' = [k \in 1..Len(coordinators) |->
          [coordinators[k] EXCEPT !.zone_update_callbacks = @ \o PlatformCallbacks]]
    /\ LET start == [entities |-> entities, created |-> [p \in Platforms |-> {}]]
           l == PlatformSetup("light", 1, start)
           f == PlatformSetup("fan", 1, l)
           c == PlatformSetup("climate", 1, f)
           es == c.entities \o Selects(coordinators, 1) \o BinarySensors(coordinators, 1) IN
       /\ entities' = es
       /\ created' = c.created
       /\ unique_ids' = unique_ids \cup IdsOf(es)
    /\ reported' = reported \cup
          UNION {Reports(p, coordinators[k]) : p \in Platforms, k \in 1..Len(coordinators)}
    /\ Leave(t, [task[t] EXCEPT !.res = "True"])
    /\ UNCHANGED <<connections, conns, clients, connection_lock, waiters, nops, unlocked>>
    /\ UNCHANGED <<vessels, runtime_data, generation, nclosures, devices, setup_log>>
    /\ UNCHANGED <<delivery, vendor_thread_writes, loop_calls, nevents, call, shutdown>>

(* ---------------------------- the coordinator --------------------------- *)
\* a reconnect only after more failures than the maximum
reconnect_due_late(c) == c.consecutive_failures + 1 > MAX_CONSECUTIVE_FAILURES

\* _async_update_data, lines 100-103: the counter, once incremented, has reached
\* MAX_CONSECUTIVE_FAILURES
reconnect_due(c) == c.consecutive_failures + 1 >= MAX_CONSECUTIVE_FAILURES

\* _async_update_data, lines 94-111, and _simple_reconnect, lines 127-137; the host
\* runs one refresh of a coordinator at a time. A refresh that awaits nothing is
\* not counted as an operation. With N > 0 the polls are logged and a coordinator
\* is polled at most N times.
call_async_update_data(t, N) ==
    /\ CanStart(t)
    /\ entry_state = "loaded" /\ runtime_data
    /\ \E k \in 1..Len(coordinators) :
         LET c == coordinators[k]
             r == [IdleTask EXCEPT !.op = "poll", !.k = k, !.m = c.monitor_id]
             Logged(found) ==
                IF N = 0 THEN c.polls
                ELSE c.polls \o <<[found |-> found,
                                   client_up |-> ClientIsConnected(get_gecko_client_sync(c.monitor_id))]>>
         IN
         /\ N > 0 => Len(c.polls) < N
         /\ \A u \in Tasks : ~(task[u].op = "poll" /\ task[u].k = k /\ ~Free(u))
         /\ IF Connected(c.monitor_id)
              THEN /\ coordinators' = [coordinators EXCEPT ![k].consecutive_failures = 0,
                                                           ![k].polls = Logged("up")]
                   /\ Leave(t, [r EXCEPT !.res = "data"])
                   /\ UNCHANGED <<connection_lock, waiters, nops>>
              ELSE IF ~reconnect_due(c)
                THEN /\ coordinators' = [coordinators EXCEPT ![k].consecutive_failures = @ + 1,
                                                             ![k].polls = Logged("down")]
                     /\ Leave(t, [r EXCEPT !.res = "data"])
                     /\ UNCHANGED <<connection_lock, waiters, nops>>
                ELSE /\ coordinators' = [coordinators EXCEPT ![k].consecutive_failures = @ + 1,
                                                             ![k].polls = Logged("reconnect")]
                     /\ Acquire(t, [r EXCEPT !.stack = <<"sr_disconnected">>,
                                              !.callbacks_before = RegisteredFor(c.monitor_id)],
                                "dm_body")
                     /\ nops' = nops + 1
    /\ UNCHANGED <<connections, conns, clients, unlocked>>
    /\ UNCHANGED <<vessels, entry_state, runtime_data, generation, nclosures, devices,
                   setup_log, forwarded>>
    /\ UNCHANGED pvars

\* the livestream call made before the delay
simple_reconnect_url_first(t) ==
    /\ task[t].pc = "sr_disconnected" /\ CanRun(t)
    /\ task' = [task EXCEPT ![t].pc = "sr_url", ![t].trace = @ \o <<"url", "sleep">>]
    /\ running' = NoTask
    /\ UNCHANGED <<connections, conns, clients, connection_lock, waiters, nops, unlocked>>
    /\ UNCHANGED evars
    /\ UNCHANGED pvars

\* _simple_reconnect, lines 137-141: the delay, then the livestream call
simple_reconnect_disconnected(t) ==
    /\ task[t].pc = "sr_disconnected" /\ CanRun(t)
    /\ task' = [task EXCEPT ![t].pc = "sr_url", ![t].trace = @ \o <<"sleep", "url">>]
    /\ running' = NoTask
    /\ UNCHANGED <<connections, conns, clients, connection_lock, waiters, nops, unlocked>>
    /\ UNCHANGED evars
    /\ UNCHANGED pvars

\* _simple_reconnect, lines 141-149, and _async_update_data, line 106
simple_reconnect_url(t) ==
    /\ task[t].pc = "sr_url" /\ running = NoTask
    /\ LET r == task[t] IN
       \/ \E u \in Urls :
            /\ nclosures' = nclosures + 1
            /\ Acquire(t, [r EXCEPT !.url = u, !.rcb = "cb",
                              !.cb = Callback(coordinators[r.k].vessel_id, generation, nclosures + 1),
                              !.stack = <<"sr_connected">> \o @], "goc_body")
            /\ UNCHANGED coordinators
       \/ \* no brokerUrl, or an exception: logged
          /\ coordinators' = [coordinators EXCEPT ![r.k].consecutive_failures = 0]
          /\ Leave(t, [r EXCEPT !.res = "data"])
          /\ UNCHANGED <<nclosures, connection_lock, waiters>>
    /\ UNCHANGED <<connections, conns, clients, nops, unlocked>>
    /\ UNCHANGED <<vessels, entry_state, runtime_data, generation, devices, setup_log, forwarded>>
    /\ UNCHANGED pvars

\* async_setup_monitor_connection, lines 283-288, and _async_update_data, lines 106-111
simple_reconnect_connected(t) ==
    /\ task[t].pc = "sr_connected" /\ CanRun(t)
    /\ coordinators' = [coordinators EXCEPT ![task[t].k].consecutive_failures = 0]
    /\ Leave(t, [task[t] EXCEPT !.res = "data", !.exc = FALSE])
    /\ UNCHANGED <<connections, conns, clients, connection_lock, waiters, nops, unlocked>>
    /\ UNCHANGED <<vessels, entry_state, runtime_data, generation, nclosures, devices,
                   setup_log, forwarded>>
    /\ UNCHANGED pvars

(* ------------------------------- unload --------------------------------- *)
\* async_unload_entry, lines 233-238: every coordinator is shut down; the host runs
\* the setups and unloads of an entry one at a time
call_unload_entry(t) ==
    /\ CanStart(t)
    /\ entry_state = "loaded"
    /\ entry_state' = "unload_in_progress"
    /\ coordinators' = [k \in 1..Len(coordinators) |-> coordinator_async_shutdown(coordinators[k])]
    /\ task' = [task EXCEPT ![t] = [IdleTask EXCEPT !.op = "unload_entry", !.pc = "un_platforms"]]
    /\ running' = NoTask
    /\ nops' = nops + 1
    /\ UNCHANGED <<connections, conns, clients, connection_lock, waiters, unlocked>>
    /\ UNCHANGED <<vessels, runtime_data, generation, nclosures, devices, setup_log, forwarded>>
    /\ UNCHANGED pvars

\* line 238: the host unloads the platforms; on success their entities are removed
\* and runtime_data is dropped
unload_entry_platforms(t) ==
    /\ task[t].pc = "un_platforms" /\ running = NoTask
    /\ \/ /\ entry_state' = "not_loaded"
          /\ runtime_data' = FALSE
          /\ entities' = <<>>
          /\ Leave(t, [task[t] EXCEPT !.res = "True"])
       \/ /\ entry_state' = "failed_unload"
          /\ Leave(t, [task[t] EXCEPT !.res = "False"])
          /\ UNCHANGED <<runtime_data, entities, shutdown>>
    /\ UNCHANGED <<connections, conns, clients, connection_lock, waiters, nops, unlocked>>
    /\ UNCHANGED <<vessels, coordinators, generation, nclosures, devices, setup_log, forwarded>>
    /\ UNCHANGED <<delivery, vendor_thread_writes, loop_calls, created, reported, nevents,
                   unique_ids, call, shutdown>>

(* -------------------------- the vendor's thread ------------------------- *)
\* events the vendor clients emit over one behaviour
MaxEvents == 2
AllZones == [z \in ZoneTypes |-> <<1>>]
LightZones == [z \in ZoneTypes |-> IF z = "LIGHTING_ZONE" THEN <<1>> ELSE <<>>]
\* the zone dicts a client may hand to its zone-update handler
ZoneUpdates == {AllZones, LightZones}

\* the list the handler of a client iterates: the copy it took when the update came
\* (_setup_client_handlers, line 77) or the connection's own list
\* (async_reconnect_monitor, line 250)
Iterated(d) ==
    IF clients[d.client].handler = "copy" THEN d.snapshot
    ELSE conns[d.conn].update_callbacks

\* the coordinator a closure belongs to, 0 when that coordinator was replaced
CoordinatorOf(cb) ==
    IF cb.gen = generation /\ \E k \in 1..Len(coordinators) : coordinators[k].vessel_id = cb.owner
      THEN CHOOSE k \in 1..Len(coordinators) : coordinators[k].vessel_id = cb.owner
      ELSE 0

CoordinatorWrites ==
    {"coordinator._zones", "coordinator._has_initial_zones",
     "coordinator._initial_zones_loaded_event"}

\* a connected client hands a zone update to the handler registered on it
vendor_zone_update(cl, Zs) ==
    /\ nevents < MaxEvents /\ ~delivery.active
    /\ Live(cl)
    /\ \E z \in Zs :
         LET c == clients[cl].conn IN
         delivery' = [active |-> TRUE, done |-> FALSE, client |-> cl, conn |-> c,
                      current |-> conns[c].gecko_client = cl, zones |-> z,
                      snapshot |-> IF clients[cl].handler = "copy"
                                     THEN conns[c].update_callbacks ELSE <<>>,
                      start |-> conns[c].update_callbacks,
                      idx |-> 1, delivered |-> <<>>, raised |-> FALSE]
    /\ nevents' = nevents + 1
    /\ UNCHANGED <<vendor_thread_writes, loop_calls, entities, created, reported, unique_ids,
                   call, shutdown>>
    /\ UNCHANGED <<mvars, evars>>

\* on_zone_update of the manager, one turn of its loop: the next callback is called;
\* a callback of a caller of the manager may raise (logged), a coordinator's
\* on_zone_update (coordinator.py lines 245-269) stores the zones and schedules
\* _async_handle_zone_update on the event loop
vendor_deliver ==
    /\ delivery.active
    /\ LET d == delivery IN
       IF d.idx > Len(Iterated(d))
         THEN /\ delivery' = [d EXCEPT !.active = FALSE, !.done = TRUE]
              /\ UNCHANGED <<coordinators, vendor_thread_writes, loop_calls, shutdown>>
         ELSE LET cb == Iterated(d)[d.idx]
                  k == CoordinatorOf(cb) IN
              IF cb.gen = 0
                THEN /\ \E raises \in BOOLEAN :
                          delivery' = [d EXCEPT !.idx = @ + 1, !.delivered = Append(@, cb),
                                                !.raised = @ \/ raises]
                     /\ UNCHANGED <<coordinators, vendor_thread_writes, loop_calls, shutdown>>
                ELSE /\ delivery' = [d EXCEPT !.idx = @ + 1, !.delivered = Append(@, cb)]
                     /\ vendor_thread_writes' = vendor_thread_writes \cup CoordinatorWrites
                     /\ IF k = 0
                          THEN UNCHANGED <<coordinators, loop_calls, shutdown>>
                          ELSE /\ coordinators' = [coordinators EXCEPT
                                     ![k].zones = d.zones,
                                     ![k].has_initial_zones = TRUE,
                                     ![k].initial_zones_loaded_event = TRUE]
                               /\ loop_calls' = Append(loop_calls, k)
    /\ UNCHANGED <<entities, created, reported, nevents, unique_ids, call, shutdown>>
    /\ UNCHANGED mvars
    /\ UNCHANGED <<vessels, entry_state, runtime_data, generation, nclosures, devices,
                   setup_log, forwarded>>

\* _async_handle_zone_update, on the event loop: the platforms' discovery callbacks
async_handle_zone_update ==
    /\ loop_calls # <<>> /\ running = NoTask
    /\ LET k == Head(loop_calls)
           r == RunCallbacks(coordinators[k].zone_update_callbacks, coordinators[k],
                             [entities |-> entities, created |-> created]) IN
       /\ entities' = r.entities
       /\ created' = r.created
       /\ unique_ids' = unique_ids \cup IdsOf(r.entities)
       /\ reported' = reported \cup
             UNION {Reports(coordinators[k].zone_update_callbacks[i], coordinators[k]) :
                      i \in 1..Len(coordinators[k].zone_update_callbacks)}
    /\ loop_calls' = Tail(loop_calls)
    /\ UNCHANGED <<delivery, vendor_thread_writes, nevents, call, shutdown>>
    /\ UNCHANGED <<mvars, evars>>

\* entity._on_connectivity_update, lines 66-79, with the client objects cs
OnConnectivityUpdate(e, cs) ==
    [e EXCEPT !.available = IsUp(cs, get_gecko_client_sync(e.monitor_id))]

\* a client reports its connectivity on its thread: the manager's handler
\* (connection_manager.py line 87 or 259) and then the handlers of the entities
\* registered on the client
vendor_connectivity_update(cl) ==
    /\ nevents < MaxEvents
    /\ clients[cl].alloc /\ clients[cl].connected
    /\ \E up \in BOOLEAN, status \in {"RUNNING", "NOT_RUNNING"} :
         LET cs == [clients EXCEPT ![cl].transport_up = up]
             es == [i \in 1..Len(entities) |->
                      IF entities[i].registered = cl
                        THEN OnConnectivityUpdate(entities[i], cs) ELSE entities[i]] IN
         /\ clients' = cs
         /\ conns' = [conns EXCEPT ![clients[cl].conn].connectivity_status = status]
         /\ entities' = es
         /\ vendor_thread_writes' = vendor_thread_writes
               \cup {"connection.connectivity_status"}
               \cup {"entity._attr_available" : i \in {j \in 1..Len(entities) :
                                                          es[j] # entities[j]}}
    /\ nevents' = nevents + 1
    /\ UNCHANGED <<delivery, loop_calls, created, reported, unique_ids, call, shutdown>>
    /\ UNCHANGED <<connections, connection_lock, waiters, running, task, nops, unlocked>>
    /\ UNCHANGED evars

(* ------------------------------ the manager ---------------------------- *)
\* the manager once constructed, with no entry set up
Init == InitManager /\ InitEntry({<<>>}) /\ InitPlatforms

Next ==
    \E t \in Tasks :
       \/ lock_wake(t)
       \/ call_get_or_create_connection(t, OneMonitor, OneCallback \cup {NoCallback}, {"None", "cb"})
       \/ get_or_create_body(t)
       \/ get_or_create_connected(t)
       \/ call_remove_callback(t, OneMonitor, OneCallback)
       \/ remove_callback_body(t)
       \/ call_disconnect_monitor(t, OneMonitor)
       \/ disconnect_monitor_body(t)
       \/ disconnect_monitor_disconnected(t)
       \/ call_reconnect_monitor(t, OneMonitor)
       \/ reconnect_monitor_url(t)
       \/ reconnect_monitor_locked(t)
       \/ reconnect_monitor_disconnected(t)
       \/ reconnect_monitor_slept(t)
       \/ reconnect_monitor_connected(t)
       \/ call_refresh_connection_token(t, OneMonitor)
       \/ refresh_connection_token_body(t)
       \/ refresh_connection_token_disconnected(t)
       \/ refresh_connection_token_slept(t)
       \/ refresh_connection_token_url(t)
       \/ refresh_connection_token_connected(t)

Spec == Init /\ [][Next]_vars

(* ------------------ the entry's life in the host ------------------------ *)
\* the manager constructed and an entry, not yet set up, whose vessels have the
\* monitor m1 or none
InitEntryLife ==
    InitManager /\ InitEntry(VesselLists({"m1", NoMonitor}, {"Spa"})) /\ InitPlatforms

NextEntry ==
    \E t \in Tasks :
       \/ lock_wake(t)
       \/ call_setup_entry(t)
       \/ setup_entry_coordinators(t)
       \/ setup_entry_vessel(t, DeviceOutcomes)
       \/ setup_entry_url(t, UrlOutcomes)
       \/ setup_entry_connected(t)
       \/ setup_entry_forward(t)
       \/ get_or_create_body(t)
       \/ get_or_create_connected(t)
       \/ call_async_update_data(t, 0)
       \/ disconnect_monitor_body(t)
       \/ disconnect_monitor_disconnected(t)
       \/ simple_reconnect_disconnected(t)
       \/ simple_reconnect_url(t)
       \/ simple_reconnect_connected(t)
       \/ call_unload_entry(t)
       \/ unload_entry_platforms(t)

SpecEntry == InitEntryLife /\ [][NextEntry]_vars

(* -------------------- the three reconnection paths ---------------------- *)
\* an entry whose vessels all have the monitor m1
InitReconnect == InitManager /\ InitEntry(VesselLists(OneMonitor, {"Spa"})) /\ InitPlatforms

NextReconnect ==
    \E t \in Tasks :
       \/ lock_wake(t)
       \/ call_setup_entry(t)
       \/ setup_entry_coordinators(t)
       \/ setup_entry_vessel(t, {"ok"})
       \/ setup_entry_url(t, {"url", "livestream_error"})
       \/ setup_entry_connected(t)
       \/ setup_entry_forward(t)
       \/ get_or_create_body(t)
       \/ get_or_create_connected(t)
       \/ call_async_update_data(t, 0)
       \/ disconnect_monitor_body(t)
       \/ disconnect_monitor_disconnected(t)
       \/ simple_reconnect_disconnected(t)
       \/ simple_reconnect_url(t)
       \/ simple_reconnect_connected(t)
       \/ call_reconnect_monitor(t, OneMonitor)
       \/ reconnect_monitor_url(t)
       \/ reconnect_monitor_locked(t)
       \/ reconnect_monitor_disconnected(t)
       \/ reconnect_monitor_slept(t)
       \/ reconnect_monitor_connected(t)
       \/ call_refresh_connection_token(t, OneMonitor)
       \/ refresh_connection_token_body(t)
       \/ refresh_connection_token_disconnected(t)
       \/ refresh_connection_token_slept(t)
       \/ refresh_connection_token_url(t)
       \/ refresh_connection_token_connected(t)

SpecReconnect == InitReconnect /\ [][NextReconnect]_vars

(* --------------------------- the callback fan-out ----------------------- *)
NextFanout ==
    \/ \E t \in Tasks :
          \/ lock_wake(t)
          \/ call_get_or_create_connection(t, OneMonitor, Callbacks, {"cb"})
          \/ get_or_create_body(t)
          \/ get_or_create_connected(t)
          \/ call_remove_callback(t, OneMonitor, Callbacks)
          \/ remove_callback_body(t)
          \/ call_reconnect_monitor(t, OneMonitor)
          \/ reconnect_monitor_url(t)
          \/ reconnect_monitor_locked(t)
          \/ reconnect_monitor_disconnected(t)
          \/ reconnect_monitor_slept(t)
          \/ reconnect_monitor_connected(t)
          \/ call_refresh_connection_token(t, OneMonitor)
          \/ refresh_connection_token_body(t)
          \/ refresh_connection_token_disconnected(t)
          \/ refresh_connection_token_slept(t)
          \/ refresh_connection_token_url(t)
          \/ refresh_connection_token_connected(t)
    \/ \E cl \in ClientIds : vendor_zone_update(cl, {AllZones})
    \/ vendor_deliver

SpecFanout == Init /\ [][NextFanout]_vars

(* ------------------- the entry's entities and its threads --------------- *)
\* an entry, not yet set up, of vessels that each have a monitor and a name
InitEntities ==
    InitManager /\ InitEntry(VesselLists(Monitors, VesselNames)) /\ InitPlatforms

NextEntities ==
    \/ \E t \in Tasks :
          \/ call_setup_entry(t)
          \/ setup_entry_coordinators(t)
          \/ setup_entry_vessel(t, {"ok"})
          \/ setup_entry_url(t, {"url"})
          \/ setup_entry_connected(t)
          \/ setup_entry_forward(t)
          \/ get_or_create_body(t)
          \/ get_or_create_connected(t)
    \/ \E cl \in ClientIds :
          \/ vendor_zone_update(cl, ZoneUpdates)
          \/ vendor_connectivity_update(cl)
    \/ vendor_deliver
    \/ async_handle_zone_update

SpecEntities == InitEntities /\ [][NextEntities]_vars

(* ----------------------------- the polling ------------------------------ *)
\* polls of one coordinator over one behaviour, where the polls are logged
MaxPolls == 4

\* an entry of vessels that have the monitor m1 or none, whose setup may fail to
\* get the livestream URL, and whose coordinators are then polled
NextPolling ==
    \E t \in Tasks :
       \/ lock_wake(t)
       \/ call_setup_entry(t)
       \/ setup_entry_coordinators(t)
       \/ setup_entry_vessel(t, {"ok"})
       \/ setup_entry_url(t, {"url", "livestream_error"})
       \/ setup_entry_connected(t)
       \/ setup_entry_forward(t)
       \/ get_or_create_body(t)
       \/ get_or_create_connected(t)
       \/ call_async_update_data(t, MaxPolls)
       \/ disconnect_monitor_body(t)
       \/ disconnect_monitor_disconnected(t)
       \/ simple_reconnect_disconnected(t)
       \/ simple_reconnect_url(t)
       \/ simple_reconnect_connected(t)

SpecPolling == InitEntryLife /\ [][NextPolling]_vars

(* ------------------ the entities over the entry's life ------------------ *)
\* an entry with no vessel or one vessel on the monitor m1, that is set up and
\* unloaded while the token of its connection is refreshed (which reconnects it)
\* and its client reports zones
InitUniqueIds ==
    InitManager /\ InitEntry({<<>>, <<Vessel(1, "m1", "Spa")>>}) /\ InitPlatforms

NextUniqueIds ==
    \/ \E t \in Tasks :
          \/ lock_wake(t)
          \/ call_setup_entry(t)
          \/ setup_entry_coordinators(t)
          \/ setup_entry_vessel(t, {"ok"})
          \/ setup_entry_url(t, {"url"})
          \/ setup_entry_connected(t)
          \/ setup_entry_forward(t)
          \/ get_or_create_body(t)
          \/ get_or_create_connected(t)
          \/ call_unload_entry(t)
          \/ unload_entry_platforms(t)
          \/ call_refresh_connection_token(t, OneMonitor)
          \/ refresh_connection_token_body(t)
          \/ refresh_connection_token_disconnected(t)
          \/ refresh_connection_token_slept(t)
          \/ refresh_connection_token_url(t)
          \/ refresh_connection_token_connected(t)
    \/ \E cl \in ClientIds : vendor_zone_update(cl, {AllZones})
    \/ vendor_deliver
    \/ async_handle_zone_update

SpecUniqueIds == InitUniqueIds /\ [][NextUniqueIds]_vars

(* --------------------------- the stop event ----------------------------- *)
\* callbacks handed to add_shutdown_callback over one behaviour
MaxShutdownCallbacks == 2
ShutdownCallbacks == {"s1", "s2"}

\* list(self._connections.keys()): a dict keeps the order of insertion, and the
\* connection objects are numbered in the order of their construction
RECURSIVE keys_in_order(_)
keys_in_order(ms) ==
    IF ms = {} THEN <<>>
    ELSE LET m == CHOOSE x \in ms : \A y \in ms : connections[x] <= connections[y]
         IN  <<m>> \o keys_in_order(ms \ {m})

\* lines 291-295: the callbacks invoked by the loop from position i on, when those
\* at the positions `raising` raise; each call is inside its own try/except Exception
RECURSIVE shutdown_callbacks_called(_, _, _)
shutdown_callbacks_called(callbacks, raising, i) ==
    IF i > Len(callbacks) THEN <<>>
    ELSE <<callbacks[i]>> \o shutdown_callbacks_called(callbacks, raising, i + 1)

\* add_shutdown_callback, lines 369-371
add_shutdown_callback ==
    /\ running = NoTask
    /\ ~shutdown.finished
    /\ Len(shutdown.shutdown_callbacks) < MaxShutdownCallbacks
    /\ \E callback \in ShutdownCallbacks :
          shutdown' = [shutdown EXCEPT !.shutdown_callbacks = Append(@, callback)]
    /\ UNCHANGED <<mvars, evars>>
    /\ UNCHANGED <<delivery, vendor_thread_writes, loop_calls, entities, created, reported,
                   nevents, unique_ids, call>>

\* _async_shutdown, line 286: EVENT_HOMEASSISTANT_STOP fires (it is listened to once)
\* and the keys are listed, without the lock
call_async_shutdown(t) ==
    /\ CanEnter(t)
    /\ ~shutdown.fired
    /\ LET stored == {m \in MonitorKeys : connections[m] # NoConn} IN
       shutdown' = [shutdown EXCEPT !.fired = TRUE, !.monitor_ids = keys_in_order(stored),
                                    !.existed = {connections[m] : m \in stored}]
    /\ task' = [task EXCEPT ![t] = [IdleTask EXCEPT !.op = "shutdown", !.pc = "sh_loop", !.i = 1]]
    /\ running' = t
    /\ unlocked' = Unlocked(t, {"_async_shutdown: list(self._connections.keys())"})
    /\ UNCHANGED <<connections, conns, clients, connection_lock, waiters, nops>>
    /\ UNCHANGED evars
    /\ UNCHANGED <<delivery, vendor_thread_writes, loop_calls, entities, created, reported,
                   nevents, unique_ids, call>>

\* _async_shutdown, lines 287-295: the next monitor of the list is disconnected, and
\* after the last one the shutdown callbacks are called one after the other
async_shutdown_loop(t) ==
    /\ task[t].pc = "sh_loop" /\ CanRun(t)
    /\ LET r == task[t] IN
       IF r.i <= Len(shutdown.monitor_ids)
         THEN /\ Acquire(t, [r EXCEPT !.m = shutdown.monitor_ids[r.i], !.i = r.i + 1,
                                      !.stack = <<"sh_loop">> \o @], "dm_body")
              /\ UNCHANGED shutdown
         ELSE /\ \E raising \in SUBSET (1..Len(shutdown.shutdown_callbacks)) :
                   shutdown' = [shutdown EXCEPT
                      !.called = shutdown_callbacks_called(shutdown.shutdown_callbacks, raising, 1),
                      !.finished = TRUE]
              /\ Leave(t, r)
              /\ UNCHANGED <<connection_lock, waiters>>
    /\ UNCHANGED <<connections, conns, clients, nops, unlocked>>
    /\ UNCHANGED evars
    /\ UNCHANGED <<delivery, vendor_thread_writes, loop_calls, entities, created, reported,
                   nevents, unique_ids, call>>

\* the manager's operations on two monitors while callbacks are registered and the
\* host stops
NextShutdown ==
    \/ \E t \in Tasks :
          \/ lock_wake(t)
          \/ call_get_or_create_connection(t, Monitors, {NoCallback}, {"cb"})
          \/ get_or_create_body(t)
          \/ get_or_create_connected(t)
          \/ disconnect_monitor_body(t)
          \/ disconnect_monitor_disconnected(t)
          \/ call_reconnect_monitor(t, OneMonitor)
          \/ reconnect_monitor_url(t)
          \/ reconnect_monitor_locked(t)
          \/ reconnect_monitor_disconnected(t)
          \/ reconnect_monitor_slept(t)
          \/ reconnect_monitor_connected(t)
          \/ call_async_shutdown(t)
          \/ async_shutdown_loop(t)
    \/ add_shutdown_callback

SpecShutdown == Init /\ [][NextShutdown]_vars

(* ------------------- disconnecting among two monitors ------------------- *)
\* the manager's connections for two monitors are opened, reconnected and
\* disconnected in any interleaving
NextDisconnect ==
    \E t \in Tasks :
       \/ lock_wake(t)
       \/ call_get_or_create_connection(t, Monitors, {NoCallback}, {"cb"})
       \/ get_or_create_body(t)
       \/ get_or_create_connected(t)
       \/ call_disconnect_monitor(t, Monitors)
       \/ disconnect_monitor_body(t)
       \/ disconnect_monitor_disconnected(t)
       \/ call_reconnect_monitor(t, OneMonitor)
       \/ reconnect_monitor_url(t)
       \/ reconnect_monitor_locked(t)
       \/ reconnect_monitor_disconnected(t)
       \/ reconnect_monitor_slept(t)
       \/ reconnect_monitor_connected(t)

SpecDisconnect == Init /\ [][NextDisconnect]_vars

(* ------------------- a loss on the vendor's side ------------------------ *)
\* an entry of up to two vessels, on the monitor m1 or without a monitor, whose
\* coordinators are polled while the vendor client reports its connectivity
NextVendorLoss ==
    \/ \E t \in Tasks :
          \/ lock_wake(t)
          \/ call_setup_entry(t)
          \/ setup_entry_coordinators(t)
          \/ setup_entry_vessel(t, {"ok"})
          \/ setup_entry_url(t, {"url", "livestream_error"})
          \/ setup_entry_connected(t)
          \/ setup_entry_forward(t)
          \/ get_or_create_body(t)
          \/ get_or_create_connected(t)
          \/ call_async_update_data(t, MaxPolls)
          \/ disconnect_monitor_body(t)
          \/ disconnect_monitor_disconnected(t)
          \/ simple_reconnect_disconnected(t)
          \/ simple_reconnect_url(t)
          \/ simple_reconnect_connected(t)
    \/ \E cl \in ClientIds : vendor_connectivity_update(cl)

SpecVendorLoss == InitEntryLife /\ [][NextVendorLoss]_vars

(* ------------------- the token refresh callback ------------------------- *)
\* what the callback finds in the host: the entry, its runtime_data and the API
\* client (coordinator.py lines 191-205), or a lookup that raises
HostStates == {"ok", "no_entry", "no_runtime_data", "no_api_client", "lookup_error"}
\* dict.get("brokerUrl") of a response that has no such key
Absent == "None"
\* what future.result(timeout=30.0) gives for async_get_monitor_livestream: a
\* dict (with a brokerUrl, an empty one, or none), something that is not a dict,
\* a timeout, or the exception of the API call
LivestreamOutcomes ==
    [kind : {"dict"}, brokerUrl : Urls \cup {NoUrl, Absent}]
       \cup [kind : {"not_a_dict", "timeout", "exception"}, brokerUrl : {Absent}]
NoOutcome == [kind |-> "None", brokerUrl |-> Absent]

Returned(url) == [raised |-> FALSE, result |-> url]
Raised == [raised |-> TRUE, result |-> "None"]

\* a callback whose TimeoutError escapes
livestream_result_timeout_escapes(websocket_url, o) ==
    CASE o.kind = "dict" /\ o.brokerUrl \notin {NoUrl, Absent} -> Returned(o.brokerUrl)
      [] o.kind = "timeout" -> Raised
      [] OTHER -> Returned(websocket_url)

\* refresh_token_callback, lines 216-234: the new brokerUrl if the response has a
\* truthy one; the URL of the closure otherwise, also when .get fails on a
\* response that is not a dict, on TimeoutError and on any other Exception
livestream_result(websocket_url, o) ==
    CASE o.kind = "dict" /\ o.brokerUrl \notin {NoUrl, Absent} -> Returned(o.brokerUrl)
      [] o.kind = "dict" -> Returned(websocket_url)
      [] o.kind = "not_a_dict" -> Returned(websocket_url)
      [] o.kind = "timeout" -> Returned(websocket_url)
      [] o.kind = "exception" -> Returned(websocket_url)

\* the callbacks _create_refresh_token_callback can build and the calls they can get
RefreshCallbackCalls ==
    [fn : {"refresh_token_callback"}, pc : {"start"}, websocket_url : Urls,
     monitor_id : Monitors \cup {NoMonitor}, self_monitor_id : Monitors,
     host : HostStates, target_monitor_id : {NoMonitor}, outcome : {NoOutcome},
     raised : {FALSE}, result : {"None"}]

\* refresh_token_callback, lines 188-214: the monitor to ask for, the entry, its
\* runtime data and API client; each one missing returns the closure's URL, and
\* otherwise the API call is scheduled on the event loop
refresh_token_callback_lookup ==
    /\ call.fn = "refresh_token_callback"
    /\ call.pc = "start"
    /\ LET target == IF call.monitor_id # NoMonitor THEN call.monitor_id
                     ELSE call.self_monitor_id
       IN  call' = IF call.host = "ok"
                   THEN [call EXCEPT !.pc = "waiting", !.target_monitor_id = target]
                   ELSE [call EXCEPT !.pc = "done", !.target_monitor_id = target,
                                     !.result = call.websocket_url]
    /\ UNCHANGED <<mvars, evars>>
    /\ UNCHANGED <<delivery, vendor_thread_writes, loop_calls, entities, created, reported,
                   nevents, unique_ids, shutdown>>

\* refresh_token_callback, lines 216-234: the result of the API call arrives
refresh_token_callback_result ==
    /\ call.fn = "refresh_token_callback"
    /\ call.pc = "waiting"
    /\ \E o \in LivestreamOutcomes :
          LET r == livestream_result(call.websocket_url, o)
          IN  call' = [call EXCEPT !.pc = "done", !.outcome = o, !.raised = r.raised,
                                   !.result = r.result]
    /\ UNCHANGED <<mvars, evars>>
    /\ UNCHANGED <<delivery, vendor_thread_writes, loop_calls, entities, created, reported,
                   nevents, unique_ids, shutdown>>

InitRefreshCallback ==
    InitManager /\ InitEntry({<<>>}) /\ PlatformsIdle /\ call \in RefreshCallbackCalls

NextRefreshCallback ==
    \/ refresh_token_callback_lookup
    \/ refresh_token_callback_result

SpecRefreshCallback == InitRefreshCallback /\ [][NextRefreshCallback]_vars

(* --------------------------- the config flow ---------------------------- *)
\* JSON null, and a key that a dict does not have
Null == "null"
NoKey == "no_key"
\* an API call that raised
ApiError == "api_error"

\* what async_get_user_info can give: the "account" key missing, null or a dict,
\* and in the dict the "accountId" key missing, null, empty or an id
UserInfos ==
    [account : {NoKey, Null}, accountId : {NoKey}]
       \cup [account : {"dict"}, accountId : {NoKey, Null, "", "a1"}]

\* no user data asked for yet, and the call for it raised
NoUserInfo == [account |-> "None", accountId |-> NoKey]
UserInfoError == [account |-> ApiError, accountId |-> NoKey]

\* str(x) of an account id: str(None) is the string "None"
Str(x) == IF x = Null THEN "None" ELSE x

\* _resolve_user_and_account, lines 119-123: account_data is user_data.get("account", {}),
\* account_id is str(account_data.get("accountId", "")); a null account has no
\* .get, and an empty account_id raises ValueError
resolve_account_id(ui) ==
    CASE ui.account = NoKey -> [raised |-> TRUE, account_id |-> ""]
      [] ui.account = Null -> [raised |-> TRUE, account_id |-> ""]
      [] ui.accountId = NoKey -> [raised |-> TRUE, account_id |-> ""]
      [] OTHER -> LET a == Str(ui.accountId)
                  IN  [raised |-> a = "", account_id |-> a]

\* the vessels async_get_vessels can list: vessel i has the id VesselIdOf[i] or
\* none, and the monitor m1 or none
ApiVessel(i, hasId, m) ==
    [vesselId |-> IF hasId THEN VesselIdOf[i] ELSE Null, monitorId |-> m, name |-> "Spa",
     type |-> "spa", protocolName |-> "gecko"]
ApiVesselLists ==
    UNION {{[i \in 1..n |-> ApiVessel(i, f[i][1], f[i][2])] :
               f \in [1..n -> BOOLEAN \X {"m1", Null}]} : n \in 0..Len(VesselIdOf)}

\* the record of the entry for a vessel: its own fields and the spa configuration
\* if one was fetched
EntryVessel(v, cfg) ==
    [vesselId |-> v.vesselId, monitorId |-> v.monitorId, name |-> v.name, type |-> v.type,
     protocolName |-> v.protocolName, spa_configuration |-> cfg]
\* the vessel's own fields of a record of the entry
OwnFields(e) ==
    [vesselId |-> e.vesselId, monitorId |-> e.monitorId, name |-> e.name, type |-> e.type,
     protocolName |-> e.protocolName]

\* vessel.get("monitorId") or vessel.get("vesselId")
MonitorIdOf(v) == IF v.monitorId # Null THEN v.monitorId ELSE v.vesselId

\* a loop that drops the vessel whose configuration could not be fetched
vessel_with_config_or_dropped(v, o) ==
    IF o = ApiError THEN <<>> ELSE <<EntryVessel(v, o)>>

\* async_oauth_create_entry, lines 78-93: what one turn of the loop appends, for
\* the outcome o of the configuration fetch ("skipped" when there is no monitor ID)
vessel_with_config(v, o) ==
    CASE o = "skipped" -> <<EntryVessel(v, NoKey)>>
      [] o = ApiError -> <<EntryVessel(v, NoKey)>>
      [] OTHER -> <<EntryVessel(v, o)>>

NoResult == [kind |-> "None", reason |-> "", vessels |-> <<>>, account_id |-> ""]
Abort == [kind |-> "abort", reason |-> "api_error", vessels |-> <<>>, account_id |-> ""]
CreateEntry(vs, a) == [kind |-> "create_entry", reason |-> "", vessels |-> vs, account_id |-> a]

OAuthCalls ==
    [fn : {"async_oauth_create_entry"}, pc : {"start"}, has_token : BOOLEAN,
     user_id : {"None"}, user_info : {NoUserInfo}, account_id : {""}, listed : {"None"},
     api_vessels : {<<>>}, configs : {<<>>}, vessels_with_config : {<<>>},
     result : {NoResult}, raised : {FALSE}]

OAuthFrame ==
    /\ UNCHANGED <<mvars, evars>>
    /\ UNCHANGED <<delivery, vendor_thread_writes, loop_calls, entities, created, reported,
                   nevents, unique_ids, shutdown>>

\* lines 49-55 and 114: the API client is built from data["token"]["access_token"]
\* and the user id is asked for; a KeyError or a failed call ends in the abort
oauth_create_entry_user_id ==
    /\ call.fn = "async_oauth_create_entry" /\ call.pc = "start"
    /\ \E o \in {"user1", ApiError} :
          call' = IF ~call.has_token THEN [call EXCEPT !.pc = "done", !.result = Abort]
                  ELSE IF o = ApiError
                  THEN [call EXCEPT !.pc = "done", !.user_id = o, !.result = Abort]
                  ELSE [call EXCEPT !.pc = "user_info", !.user_id = o]
    /\ OAuthFrame

\* lines 117-128: the user's data and the account id in it
oauth_create_entry_user_info ==
    /\ call.fn = "async_oauth_create_entry" /\ call.pc = "user_info"
    /\ \/ call' = [call EXCEPT !.pc = "done", !.user_info = UserInfoError, !.result = Abort]
       \/ \E ui \in UserInfos :
             LET r == resolve_account_id(ui)
             IN  call' = IF r.raised
                         THEN [call EXCEPT !.pc = "done", !.user_info = ui, !.result = Abort]
                         ELSE [call EXCEPT !.pc = "vessels", !.user_info = ui,
                                           !.account_id = r.account_id]
    /\ OAuthFrame

\* lines 61-74: the vessels of the account; none gives an entry without vessels
oauth_create_entry_vessels ==
    /\ call.fn = "async_oauth_create_entry" /\ call.pc = "vessels"
    /\ \/ call' = [call EXCEPT !.pc = "done", !.listed = ApiError, !.result = Abort]
       \/ \E vs \in ApiVesselLists :
             call' = IF vs = <<>>
                     THEN [call EXCEPT !.pc = "done", !.listed = "list",
                                       !.result = CreateEntry(<<>>, call.account_id)]
                     ELSE [call EXCEPT !.pc = "config", !.listed = "list", !.api_vessels = vs]
    /\ OAuthFrame

\* lines 77-105: one turn of the loop over the vessels, and after the last one the
\* entry is created
oauth_create_entry_spa_config ==
    /\ call.fn = "async_oauth_create_entry" /\ call.pc = "config"
    /\ LET v == call.api_vessels[Len(call.configs) + 1] IN
       \E o \in IF MonitorIdOf(v) = Null THEN {"skipped"} ELSE {"cfg", ApiError} :
          LET vwc == call.vessels_with_config \o vessel_with_config(v, o)
              last == Len(call.configs) + 1 = Len(call.api_vessels)
          IN  call' = [call EXCEPT !.configs = @ \o <<o>>,
                                   !.vessels_with_config = vwc,
                                   !.pc = IF last THEN "done" ELSE "config",
                                   !.result = IF last THEN CreateEntry(vwc, call.account_id)
                                              ELSE @]
    /\ OAuthFrame

InitConfigFlow == InitManager /\ InitEntry({<<>>}) /\ PlatformsIdle /\ call \in OAuthCalls

NextConfigFlow ==
    \/ oauth_create_entry_user_id
    \/ oauth_create_entry_user_info
    \/ oauth_create_entry_vessels
    \/ oauth_create_entry_spa_config

SpecConfigFlow == InitConfigFlow /\ [][NextConfigFlow]_vars

(* ---------------------------- the diagnostics --------------------------- *)
\* websocket_url[:50] + "...": the URLs of the model are shorter than 50 characters
Truncated(url) == <<url, "...">>

\* a payload that keeps the truncated URL
websocket_url_field_unredacted(url) == IF url # NoUrl THEN Truncated(url) ELSE <<"None">>

\* _get_connection_diagnostics, lines 112 and 127-128: the truncated URL, or None for
\* an empty one, and then the redaction of a truthy field
websocket_url_field(url) ==
    LET field == IF url # NoUrl THEN Truncated(url) ELSE <<"None">>
    IN  IF field # <<"None">> THEN <<"<REDACTED>">> ELSE field

\* _get_gecko_client_info, lines 45-95, for the client objects cls
gecko_client_info(cls, cl) ==
    IF cl = NoClient THEN [client_id |-> NoMonitor, is_connected |-> FALSE]
    ELSE [client_id |-> cls[cl].monitor_id, is_connected |-> IsUp(cls, cl)]

\* _get_connection_diagnostics, lines 106-136, for the cache cache, the connection
\* objects cns and the client objects cls: one conn_data per stored monitor
connection_diagnostics(cache, cns, cls) ==
    [m \in {k \in MonitorKeys : cache[k] # NoConn} |->
        LET c == cns[cache[m]]
        IN  [monitor_id |-> m,
             is_connected |-> c.is_connected,
             websocket_url |-> websocket_url_field(c.websocket_url),
             callback_count |-> Len(c.update_callbacks),
             connectivity_status |-> c.connectivity_status,
             gecko_client |-> gecko_client_info(cls, c.gecko_client)]]

\* the host asks for the diagnostics between two runs of the coroutines
get_connection_diagnostics ==
    /\ running = NoTask
    /\ call' = [fn |-> "get_connection_diagnostics", pc |-> "done",
                connections |-> connections, conns |-> conns, clients |-> clients,
                result |-> connection_diagnostics(connections, conns, clients)]
    /\ call' # call
    /\ UNCHANGED <<mvars, evars>>
    /\ UNCHANGED <<delivery, vendor_thread_writes, loop_calls, entities, created, reported,
                   nevents, unique_ids, shutdown>>

\* the manager with connections for both monitors whose tokens are refreshed
NextDiagnostics ==
    \/ \E t \in Tasks :
          \/ lock_wake(t)
          \/ call_get_or_create_connection(t, Monitors, OneCallback, {"cb"})
          \/ get_or_create_body(t)
          \/ get_or_create_connected(t)
          \/ call_refresh_connection_token(t, OneMonitor)
          \/ refresh_connection_token_body(t)
          \/ refresh_connection_token_disconnected(t)
          \/ refresh_connection_token_slept(t)
          \/ refresh_connection_token_url(t)
          \/ refresh_connection_token_connected(t)
    \/ get_connection_diagnostics

SpecDiagnostics == Init /\ [][NextDiagnostics]_vars

(* ------------------------------- claims -------------------------------- *)
LiveClients(m) == {c \in ClientIds : Live(c) /\ clients[c].monitor_id = m}

\* C1: at most one vendor client per monitor ID is live, and that client is the
\* gecko_client of the connection stored in _connections for the ID.
C1_OneLiveClientPerMonitor ==
    \A m \in Monitors :
       /\ Cardinality(LiveClients(m)) <= 1
       /\ \A c \in LiveClients(m) :
             connections[m] # NoConn /\ conns[connections[m]].gecko_client = c

\* C2: every write to the connection cache and every membership check an
\* operation acts upon is made while holding _connection_lock.
C2_EveryAccessUnderLock == unlocked = {}

ReturnsNow(t) ==
    /\ task[t].pc # "done" /\ task'[t].pc = "done"
    /\ task'[t].op \in {"reconnect_monitor", "refresh_connection_token"}

\* the state the operation of task t leaves when it returns: its connection is
\* stored, holds the client the operation built, connected, and is flagged
Reconnected(t) ==
    /\ task[t].conn # NoConn /\ task[t].cl # NoClient
    /\ connections'[task[t].m] = task[t].conn
    /\ conns'[task[t].conn].gecko_client = task[t].cl
    /\ clients'[task[t].cl].connected
    /\ conns'[task[t].conn].is_connected

\* C10: async_reconnect_monitor and async_refresh_connection_token return True
\* exactly when the monitor's connection is stored, holds the newly connected
\* client and is flagged connected; otherwise they return False; they never raise.
C10_TrueIffReconnected ==
    [][\A t \in Tasks : ReturnsNow(t) =>
          /\ ~task'[t].exc
          /\ task'[t].res \in {"True", "False"}
          /\ (task'[t].res = "True" <=> Reconnected(t))]_vars

(* the entry *)
UnloadReturnsTrue(t) ==
    /\ task[t].pc = "un_platforms"
    /\ task'[t].pc = "done" /\ task'[t].res = "True"

\* C3: when async_unload_entry completes, for every monitor ID of the entry's
\* vessels the manager holds no connected connection and disconnect() has been
\* called on the vendor client of that monitor.
C3_UnloadDisconnectsAllMonitors ==
    [][\A t \in Tasks : UnloadReturnsTrue(t) =>
          \A i \in 1..Len(vessels) :
             LET m == vessels[i].monitorId IN
             m # NoMonitor =>
               /\ connections'[m] = NoConn \/ ~conns'[connections'[m]].is_connected
               /\ \A c \in ClientIds :
                     clients'[c].alloc /\ clients'[c].monitor_id = m /\ clients'[c].connected
                        => clients'[c].disconnect_called]_vars

UnloadStep(t) == task'[t].op = "unload_entry" /\ task'[t] # task[t]

\* C3, as the code has it: async_unload_entry disconnects nothing. Its steps leave
\* the manager's cache, the connections (their flags, clients and callbacks) and
\* the vendor clients as they are; what it does is shut every coordinator down,
\* which empties the coordinator's zones and zone-update callbacks.
C3_UnloadLeavesConnections ==
    [][\A t \in Tasks : UnloadStep(t) =>
          /\ UNCHANGED <<connections, conns, clients>>
          /\ task'[t].pc = "un_platforms" =>
                \A k \in 1..Len(coordinators') :
                   /\ coordinators'[k].zones = NoZones
                   /\ coordinators'[k].zone_update_callbacks = <<>>]_vars

C3_UnloadedStillConnected ==
    /\ \E t \in Tasks : task[t].op = "unload_entry" /\ task[t].pc = "done" /\ task[t].res = "True"
    /\ entry_state = "not_loaded" /\ ~runtime_data
    /\ \E i \in 1..Len(vessels) : vessels[i].monitorId = "m1"
    /\ Connected("m1") /\ Live(conns[connections["m1"]].gecko_client)
    /\ conns[connections["m1"]].update_callbacks # <<>>

SetupFailures == {"livestream_error", "connect_error"}

\* C4: when fetching the livestream URL or connecting the vendor client fails for
\* a vessel, async_setup_entry does not forward the platforms and the entry does
\* not become loaded.
C4_FailedSetupIsNotReady ==
    \A j \in 1..Len(setup_log) :
       setup_log[j].result \in SetupFailures => ~forwarded /\ entry_state # "loaded"

\* C4, as the code has it: a vessel's failure is caught and logged inside the loop.
\* The host is never told to retry; every vessel is processed before the platforms
\* are forwarded, the entry becomes loaded and async_setup_entry returns True
\* (it raises only when the OAuth implementation cannot be obtained).
C4_FailedSetupStillLoads ==
    /\ entry_state # "setup_retry"
    /\ \A t \in Tasks :
          /\ task[t].pc = "se_forward" => Len(setup_log) = Len(vessels)
          /\ task[t].op = "setup_entry" /\ task[t].pc = "done" =>
                \/ task[t].exc /\ entry_state = "setup_error" /\ ~forwarded
                \/ ~task[t].exc /\ task[t].res = "True" /\ forwarded
    /\ entry_state = "loaded" => forwarded /\ Len(setup_log) = Len(vessels)
    /\ \A j \in 1..Len(setup_log) :
          entry_state = "setup_in_progress" /\ setup_log[j].result \in SetupFailures =>
             \E t \in Tasks : task[t].op = "setup_entry" /\ ~Free(t)

C4_LoadedAfterFailure ==
    /\ entry_state = "loaded" /\ forwarded
    /\ \E t \in Tasks : task[t].op = "setup_entry" /\ task[t].pc = "done" /\ task[t].res = "True"
    /\ Len(setup_log) = 2
    /\ setup_log[1].result \in SetupFailures
    /\ setup_log[2].result = "connected"

Before(tr, a, b) == \A i, j \in 1..Len(tr) : tr[i] = a /\ tr[j] = b => i < j
SleptBefore(tr, e) == \A j \in 1..Len(tr) : tr[j] = e => \E i \in 1..(j-1) : tr[i] = "sleep"
DisconnectSleepUrlConnect(tr) ==
    /\ Before(tr, "disconnect", "sleep")
    /\ Before(tr, "disconnect", "url")
    /\ Before(tr, "disconnect", "connect")
    /\ SleptBefore(tr, "url")
    /\ Before(tr, "url", "connect")
ReconnectOps == {"poll", "reconnect_monitor", "refresh_connection_token"}

\* C5: in every reconnection path the calls come in the order disconnect, delay,
\* request of the fresh URL, connect; the URL is never requested before the old
\* client was disconnected.
C5_DisconnectSleepRefreshConnect ==
    \A t \in Tasks : task[t].op \in ReconnectOps => DisconnectSleepUrlConnect(task[t].trace)

\* C5, as the code has it: _simple_reconnect and async_refresh_connection_token
\* disconnect, wait, request the URL and connect, in this order;
\* async_reconnect_monitor requests the URL first, and only then disconnects the
\* old client, waits and connects. Every connect comes after a delay.
C5_ReconnectMonitorRefreshesFirst ==
    \A t \in Tasks :
       LET tr == task[t].trace IN
       /\ task[t].op \in {"poll", "refresh_connection_token"} => DisconnectSleepUrlConnect(tr)
       /\ task[t].op = "reconnect_monitor" /\ tr # <<>> =>
             /\ tr[1] = "url"
             /\ \A i \in 2..Len(tr) : tr[i] # "url"
             /\ Before(tr, "disconnect", "sleep")
             /\ Before(tr, "sleep", "connect")
       /\ task[t].op \in ReconnectOps => SleptBefore(tr, "connect")

C5_ReconnectMonitorTrace ==
    \E t \in Tasks :
       /\ task[t].op = "reconnect_monitor"
       /\ task[t].trace = <<"url", "disconnect", "sleep", "connect">>

\* C8: runtime_data.coordinators has the length and the order of the vessel list,
\* the i-th coordinator carries the i-th vessel's vesselId and monitorId, and the
\* setup loop handles the vessels in order, each with its own coordinator (the
\* connection it asks for is for that vessel's monitor and feeds that vessel's
\* coordinator), also for a vessel without monitorId.
C8_OneCoordinatorPerVessel ==
    /\ runtime_data =>
          /\ Len(coordinators) = Len(vessels)
          /\ \A i \in 1..Len(vessels) :
                /\ coordinators[i].vessel_id = vessels[i].vesselId
                /\ coordinators[i].monitor_id = vessels[i].monitorId
    /\ Len(setup_log) <= Len(vessels)
    /\ \A j \in 1..Len(setup_log) :
          /\ setup_log[j].vessel = vessels[j].vesselId
          /\ setup_log[j].coordinator = setup_log[j].vessel
    /\ \A t \in Tasks :
          task[t].op = "setup_entry" /\ task[t].cb # NoCallback =>
             /\ task[t].cb.owner = vessels[task[t].i].vesselId
             /\ task[t].m = vessels[task[t].i].monitorId
    /\ entry_state = "loaded" => Len(setup_log) = Len(vessels)

C8_TwoVesselsOneWithoutMonitor ==
    /\ entry_state = "loaded" /\ runtime_data
    /\ Len(vessels) = 2 /\ Len(coordinators) = 2
    /\ vessels[1].monitorId = NoMonitor /\ vessels[2].monitorId = "m1"
    /\ Len(setup_log) = 2
    /\ setup_log[1].result = "no_monitor" /\ setup_log[2].result = "connected"

(* the vendor's thread *)
\* C6: a callback the vendor client invokes on its own thread writes no
\* coordinator, connection or entity state there; it only schedules work on the
\* event loop.
C6_NoWriteOnVendorThread == vendor_thread_writes = {}

Quiet ==
    /\ entry_state = "loaded" /\ running = NoTask
    /\ ~delivery.active /\ loop_calls = <<>>
EntitiesOf(p, v, z) ==
    {i \in 1..Len(entities) :
        entities[i].platform = p /\ entities[i].vessel_id = v /\ entities[i].zone = z}

\* C7: once the platforms are set up and every scheduled zone update was handled,
\* each platform has exactly one entity per (vessel, zone id) of its zone type that
\* a coordinator has reported to it, and none for any other.
C7_OneEntityPerReportedZone ==
    Quiet =>
       \A p \in Platforms, i \in 1..Len(vessels), z \in {1} :
          Cardinality(EntitiesOf(p, vessels[i].vesselId, z))
             = IF <<vessels[i].vesselId, ZoneTypeOf(p), z>> \in reported THEN 1 ELSE 0

\* C9: a zone update of a connection's current client is delivered exactly once to
\* every callback that was in update_callbacks when the update came.
C9_DeliveredOnceToEveryCallback ==
    delivery.done /\ delivery.current =>
       \A i \in 1..Len(delivery.start) :
          Cardinality({j \in 1..Len(delivery.delivered) :
                          delivery.delivered[j] = delivery.start[i]}) = 1

\* C11: the token refresh callback never raises and returns a URL: the response's
\* brokerUrl when the API call succeeded with one, and otherwise (no brokerUrl,
\* timeout, exception, no entry, no runtime data, no API client) the websocket_url
\* the callback was created with.
C11_RefreshCallbackReturnsUrl ==
    (call.fn = "refresh_token_callback" /\ call.pc = "done") =>
       /\ ~call.raised
       /\ call.result \in Urls
       /\ call.result =
             IF call.host = "ok" /\ call.outcome.kind = "dict" /\ call.outcome.brokerUrl \in Urls
             THEN call.outcome.brokerUrl
             ELSE call.websocket_url

\* the API call timed out and the callback returned the URL it was created with
C11_TimedOutReturnsOriginal ==
    /\ call.fn = "refresh_token_callback"
    /\ call.pc = "done"
    /\ call.outcome.kind = "timeout"
    /\ call.result = call.websocket_url

\* C12: an entity's unique ID is stable: whatever zone updates, reconnects, token
\* refreshes and unload/setup cycles happened in between, the entity of a given
\* platform, vessel and zone id (or sensor key) is always given the same unique_id.
C12_UniqueIdStable ==
    \A a, b \in unique_ids :
       (a[1] = b[1] /\ a[2] = b[2] /\ a[3] = b[3]) => a[4] = b[4]

\* the entry was set up a second time after an unload and its entities exist again,
\* a zone entity included
C12_EntitiesOfSecondSetup ==
    /\ generation >= 2
    /\ entry_state = "loaded"
    /\ \E i \in 1..Len(entities) : entities[i].platform = "light"
    /\ \E i \in 1..Len(entities) : entities[i].platform = "select"
    /\ \E i \in 1..Len(entities) : entities[i].platform = "binary_sensor"

OAuthDone == call.fn = "async_oauth_create_entry" /\ call.pc = "done"

\* C13: the entry created by async_oauth_create_entry has one record per vessel the
\* API listed, in the same order and with the vessel's own fields, whether the
\* spa configuration was fetched, failed or was skipped; with no vessel listed the
\* entry is created with an empty list.
C13_OneRecordPerVessel ==
    (OAuthDone /\ call.listed = "list" /\ Len(call.configs) = Len(call.api_vessels)) =>
       /\ call.result.kind = "create_entry"
       /\ Len(call.result.vessels) = Len(call.api_vessels)
       /\ \A i \in 1..Len(call.api_vessels) :
             OwnFields(call.result.vessels[i]) = call.api_vessels[i]

\* an entry of two vessels, the first one's configuration fetch failed and the
\* second one's was skipped
C13_EntryAfterFailedAndSkippedFetch ==
    /\ OAuthDone
    /\ call.result.kind = "create_entry"
    /\ call.configs = <<ApiError, "skipped">>
    /\ Len(call.result.vessels) = 2

\* the user or account could not be resolved, the account ID is missing (no key, a
\* null or an empty value) or the vessels could not be listed
OAuthResolutionFailed ==
    \/ ~call.has_token
    \/ call.user_id = ApiError
    \/ call.user_info = UserInfoError
    \/ /\ call.user_info # NoUserInfo
       /\ \/ call.user_info.account # "dict"
          \/ call.user_info.accountId \in {NoKey, Null, ""}
    \/ call.listed = ApiError

\* C14: if resolving the user and account (a missing account ID included) or listing
\* the vessels fails, the flow aborts with reason api_error, no entry is created
\* and no exception escapes.
C14_FailureAborts ==
    (OAuthDone /\ OAuthResolutionFailed) =>
       /\ call.result.kind = "abort"
       /\ call.result.reason = "api_error"
       /\ ~call.raised

\* the connection objects cns with the non-empty URLs replaced by those of f
WithUrls(cns, f) ==
    [c \in ConnIds |-> IF cns[c].websocket_url # NoUrl
                       THEN [cns[c] EXCEPT !.websocket_url = f[c]] ELSE cns[c]]

\* C15: the diagnostics payload does not disclose a connection's websocket URL: a
\* manager state that differs only in the non-empty websocket_url values gives the
\* same output, in which the field is '<REDACTED>'.
C15_UrlNeverDisclosed ==
    call.fn = "get_connection_diagnostics" =>
       /\ \A m \in DOMAIN call.result :
             call.conns[call.connections[m]].websocket_url # NoUrl
                => call.result[m].websocket_url = <<"<REDACTED>">>
       /\ \A f \in [ConnIds -> Urls] :
             connection_diagnostics(call.connections, WithUrls(call.conns, f), call.clients)
                = call.result

\* the payload of a manager that holds a connection whose token was refreshed to
\* another URL
C15_DiagnosticsOfRefreshedUrl ==
    /\ call.fn = "get_connection_diagnostics"
    /\ \E m \in DOMAIN call.result :
          call.conns[call.connections[m]].websocket_url = FreshUrl

\* the polls of log L just before poll i that found the connection down, back to
\* the last one that found it connected
RECURSIVE DownBefore(_, _)
DownBefore(L, i) ==
    IF i = 1 \/ L[i-1].found = "up" THEN 0 ELSE 1 + DownBefore(L, i - 1)

PollInFlight(k) == \E t \in Tasks : task[t].op = "poll" /\ task[t].k = k /\ ~Free(t)

\* C16: a poll attempts a reconnect exactly when it is the second, fourth, ... poll
\* in a row that finds the connection missing or not connected; the counter is 0
\* after an attempt and after a poll that finds the connection connected, so after
\* every poll it is 0 or 1; attempts recur on every second poll while the
\* connection stays down.
C16_ReconnectOnEverySecondFailedPoll ==
    \A k \in 1..Len(coordinators) :
       LET L == coordinators[k].polls IN
       /\ \A i \in 1..Len(L) :
             L[i].found = "reconnect" <=> (L[i].found # "up" /\ DownBefore(L, i) % 2 = 1)
       /\ ~PollInFlight(k) =>
             /\ coordinators[k].consecutive_failures \in {0, 1}
             /\ (L # <<>> /\ L[Len(L)].found \in {"up", "reconnect"})
                   => coordinators[k].consecutive_failures = 0
             /\ (L # <<>> /\ L[Len(L)].found = "down")
                   => coordinators[k].consecutive_failures = 1

\* four polls in a row found the connection down: the second and the fourth
\* attempted a reconnect, and the counter is 0 again
C16_TwoAttemptsInFourPolls ==
    \E k \in 1..Len(coordinators) :
       /\ Len(coordinators[k].polls) = 4
       /\ [i \in 1..4 |-> coordinators[k].polls[i].found]
             = <<"down", "reconnect", "down", "reconnect">>
       /\ ~PollInFlight(k)
       /\ coordinators[k].consecutive_failures = 0

\* C17: when the vendor client of the coordinator's connection has lost its
\* connection on the vendor side and nothing else calls the manager, the polls
\* detect it and attempt a reconnect within two polls: of two polls in a row made
\* while the client is not connected, one attempts a reconnect.
C17_VendorLossDetectedWithinTwoPolls ==
    \A k \in 1..Len(coordinators) :
       LET L == coordinators[k].polls IN
       \A i \in 1..(Len(L) - 1) :
          (~L[i].client_up /\ ~L[i+1].client_up)
             => (L[i].found = "reconnect" \/ L[i+1].found = "reconnect")

\* C18: in every state of the manager, connection.is_connected is True exactly when
\* the connection's current gecko_client has had connect() succeed and has not had
\* disconnect() called since: never False while the current client is live, never
\* True for a client that was replaced or never connected.
C18_FlagTracksCurrentClient ==
    \A c \in ConnIds :
       conns[c].alloc =>
          (conns[c].is_connected <=>
              (conns[c].gecko_client # NoClient /\ Live(conns[c].gecko_client)))

\* the body of async_get_or_create_connection is run by task t for a monitor that has an entry
GetOrCreateOfExisting(t) ==
    /\ task[t].pc = "goc_body" /\ task'[t].pc # "goc_body"
    /\ connections[task[t].m] # NoConn

NoCallbackTwice ==
    \A c \in ConnIds :
       \A i, j \in 1..Len(conns[c].update_callbacks) :
          conns[c].update_callbacks[i] = conns[c].update_callbacks[j] => i = j

\* C19: async_get_or_create_connection for a monitor that already has an entry returns
\* the connection stored for the monitor, constructs and connects no client, leaves the
\* connection's gecko_client, websocket_url, refresh_token_callback and is_connected (and
\* every other connection and the dictionary) as they were, and appends update_callback
\* only when it is given and not yet in update_callbacks; update_callbacks never holds
\* the same callback twice.
C19_ExistingEntryIsShared ==
    /\ []NoCallbackTwice
    /\ [][\A t \in Tasks :
            GetOrCreateOfExisting(t) =>
               LET r == task[t]
                   c == connections[r.m]
                   given == r.cb # NoCallback
                   known == \E i \in 1..Len(conns[c].update_callbacks) :
                               conns[c].update_callbacks[i] = r.cb IN
               /\ task'[t].res = "conn" /\ task'[t].conn = c /\ ~task'[t].exc
               /\ clients' = clients
               /\ connections' = connections
               /\ \A x \in ConnIds \ {c} : conns'[x] = conns[x]
               /\ conns'[c].gecko_client = conns[c].gecko_client
               /\ conns'[c].websocket_url = conns[c].websocket_url
               /\ conns'[c].refresh_token_callback = conns[c].refresh_token_callback
               /\ conns'[c].is_connected = conns[c].is_connected
               /\ conns'[c].update_callbacks =
                     IF given /\ ~known
                       THEN conns[c].update_callbacks \o <<r.cb>>
                       ELSE conns[c].update_callbacks]_vars

\* two calls for one monitor with the same callback have returned the one connection:
\* one client was constructed and the callback is registered once
C19_SecondCallWithSameCallback ==
    \E t1, t2 \in Tasks :
       /\ t1 # t2
       /\ \A t \in {t1, t2} :
             /\ task[t].pc = "done" /\ task[t].op = "get_or_create"
             /\ task[t].res = "conn" /\ task[t].cb # NoCallback
       /\ task[t1].m = task[t2].m /\ task[t1].cb = task[t2].cb
       /\ task[t1].conn = task[t2].conn
       /\ connections[task[t1].m] = task[t1].conn
       /\ Cardinality({cl \in ClientIds : clients[cl].alloc}) = 1
       /\ conns[task[t1].conn].update_callbacks = <<task[t1].cb>>


\* task t's call of async_get_or_create_connection for a monitor without an entry
\* fails: a constructor raises, or connect() raises and the client is not connected
GetOrCreateFails(t) ==
    \/ /\ task[t].pc = "goc_body" /\ connections[task[t].m] = NoConn
       /\ task'[t].pc \notin {"goc_body", "goc_connect"}
    \/ /\ task[t].pc = "goc_connect" /\ task'[t].pc # "goc_connect"
       /\ ~clients'[task[t].cl].connected

\* C20: when creating or connecting the client fails in async_get_or_create_connection
\* for a monitor without an entry, the exception reaches the caller, _connections is
\* as it was (no entry for the monitor) and the lock is released; the coordinator's
\* async_setup_monitor_connection then returns False and raises nothing.
C20_FailurePropagatesAndSetupReturnsFalse ==
    [][\A t \in Tasks :
         /\ GetOrCreateFails(t) =>
               /\ task'[t].exc /\ task'[t].res = "None"
               /\ task'[t].pc \in {"se_connected", "sr_connected"}
               /\ connections' = connections
               /\ connections'[task[t].m] = NoConn
               /\ connection_lock' # t
         /\ (task[t].pc = "se_connected" /\ task[t].exc /\ task'[t].pc # "se_connected") =>
               /\ Len(setup_log') = Len(setup_log) + 1
               /\ setup_log'[Len(setup_log')].success = "False"
               /\ connections' = connections
               /\ connections[task[t].m] = NoConn]_vars

\* a vessel's connect() raised during setup: the coordinator reported False, no entry
\* is stored for its monitor, the lock is free, and the setup went on
C20_SetupAfterFailedConnect ==
    \E j \in 1..Len(setup_log) :
       /\ setup_log[j].success = "False"
       /\ \E cl \in ClientIds : clients[cl].alloc /\ ~clients[cl].connected
                                  /\ ~clients[cl].disconnect_called
       /\ \A m \in MonitorKeys : connections[m] = NoConn
       /\ connection_lock = NoTask
       /\ entry_state = "loaded"


\* C21: async_disconnect_monitor(m) calls the vendor disconnect() exactly when the
\* entry of m is flagged is_connected; when it returns, m is not a key of _connections,
\* whether or not disconnect() raised, and nothing is raised to the caller; the entries
\* of all other monitors are as they were; for a monitor without an entry nothing changes.
C21_DisconnectRemovesOnlyItsEntry ==
    [][\A t \in Tasks :
         LET r == task[t]
             c == connections[r.m]
             others == \A m \in MonitorKeys \ {r.m} : connections'[m] = connections[m]
             returned == task'[t].pc = "done" /\ ~task'[t].exc IN
         /\ (r.pc = "dm_body" /\ task'[t].pc # "dm_body") =>
               /\ others
               /\ clients' = clients /\ conns' = conns
               /\ IF c = NoConn
                    THEN connections' = connections /\ returned
                    ELSE IF conns[c].is_connected
                      THEN /\ task'[t].pc = "dm_disconnect"
                           /\ connections' = connections
                      ELSE /\ returned
                           /\ connections'[r.m] = NoConn
         /\ (r.pc = "dm_disconnect" /\ task'[t].pc # "dm_disconnect") =>
               /\ others
               /\ returned
               /\ connections'[r.m] = NoConn
               /\ clients'[conns[r.conn].gecko_client].disconnect_called
               /\ \A cl \in ClientIds \ {conns[r.conn].gecko_client} : clients'[cl] = clients[cl]]_vars

\* m1 was disconnected and its disconnect() raised (the flag is still set on the
\* dropped connection object) while m2 keeps its entry and its live client
C21_RaisedDisconnectBesideOtherMonitor ==
    \E t \in Tasks, c \in ConnIds :
       /\ task[t].pc = "done" /\ task[t].op = "disconnect_monitor" /\ task[t].m = "m1"
       /\ connections["m1"] = NoConn
       /\ conns[c].alloc /\ conns[c].monitor_id = "m1" /\ conns[c].is_connected
       /\ clients[conns[c].gecko_client].disconnect_called
       /\ connections["m2"] # NoConn
       /\ Live(conns[connections["m2"]].gecko_client)


\* _async_shutdown returns in this step
ShutdownReturns == ~shutdown.finished /\ shutdown'.finished

\* C22: when _async_shutdown returns, every connection that was stored when it started
\* is removed from _connections and its client is disconnected (so only connections
\* created meanwhile are left), and every registered shutdown callback was invoked
\* once per registration, after the monitors, whichever callback or disconnect raised.
C22_ShutdownDisconnectsAllThenCallsBack ==
    /\ [](shutdown.called # <<>> => shutdown.finished)
    /\ [][ShutdownReturns =>
            /\ \A c \in shutdown.existed :
                  /\ \A m \in MonitorKeys : connections'[m] # c
                  /\ LET cl == conns'[c].gecko_client IN
                     ~(clients'[cl].connected /\ ~clients'[cl].disconnect_called)
            /\ shutdown'.called = shutdown.shutdown_callbacks]_vars


VesselFailures == {"device_error", "livestream_error", "no_url", "connect_error"}

\* the vessels are attempted in order, a vessel without monitorId gets its device and
\* nothing else, and the platforms are forwarded only after the last vessel
VesselsAttemptedInOrder ==
    /\ Len(setup_log) <= Len(vessels)
    /\ \A j \in 1..Len(setup_log) :
          /\ setup_log[j].vessel = vessels[j].vesselId
          /\ setup_log[j].result \in VesselFailures \cup {"no_monitor", "connected"}
          /\ vessels[j].monitorId = NoMonitor =>
                /\ setup_log[j].result \in {"device_error", "no_monitor"}
                /\ setup_log[j].success = "None"
          /\ setup_log[j].result = "no_monitor" =>
                /\ vessels[j].monitorId = NoMonitor
                /\ setup_log[j].device /\ vessels[j].vesselId \in devices
    /\ \A t \in Tasks :
          /\ task[t].pc = "se_forward" => Len(setup_log) = Len(vessels)
          /\ (task[t].op = "setup_entry" /\ task[t].pc = "done" /\ setup_log # <<>>) =>
                ~task[t].exc /\ Len(setup_log) = Len(vessels)
    /\ entry_state = "loaded" => Len(setup_log) = Len(vessels)

\* C23: in _setup_vessels_and_gecko_clients a vessel's failure (device registration,
\* livestream fetch, missing brokerUrl, failed connect) is caught and the loop goes on
\* with the next vessel: every vessel of the entry is attempted exactly once, in order,
\* and a vessel without monitorId gets a device while no connection is opened for it.
C23_EveryVesselAttemptedOnce ==
    /\ []VesselsAttemptedInOrder
    /\ [][\A t \in Tasks :
            (task[t].op = "setup_entry" /\ Len(setup_log') = Len(setup_log) + 1) =>
               LET j == Len(setup_log')
                   row == setup_log'[j] IN
               /\ task[t].i = j
               /\ task'[t].op = "setup_entry" /\ task'[t].pc = "se_vessel" /\ ~task'[t].exc
               /\ task'[t].i = j + 1
               /\ row.result = "no_monitor" =>
                     /\ task[t].pc = "se_vessel"
                     /\ connections' = connections /\ conns' = conns /\ clients' = clients
                     /\ connection_lock' = connection_lock]_vars

\* a loaded entry of two vessels: the device registry raised for the first one, and
\* the second one, which has no monitorId, got its device and no connection
C23_DeviceErrorThenVesselWithoutMonitor ==
    /\ entry_state = "loaded"
    /\ Len(vessels) = 2 /\ Len(setup_log) = 2
    /\ setup_log[1].result = "device_error" /\ ~setup_log[1].device
    /\ setup_log[2].result = "no_monitor" /\ setup_log[2].device
    /\ devices = {vessels[2].vesselId}
    /\ \A m \in MonitorKeys : connections[m] = NoConn
    /\ \A cl \in ClientIds : ~clients[cl].alloc


\* task t's reconnection succeeds in this step: connect() of the new client returned
\* in async_reconnect_monitor or async_refresh_connection_token, or the
\* async_get_or_create_connection of _simple_reconnect returned a connection
ReconnectionSucceeds(t) ==
    \/ /\ task[t].pc \in {"rc_connect", "rf_connect"}
       /\ task'[t].pc = "done" /\ task'[t].res = "True"
    \/ /\ task[t].op = "poll" /\ task[t].pc \in {"goc_body", "goc_connect"}
       /\ task'[t].pc = "sr_connected" /\ ~task'[t].exc

\* C24: after a successful reconnection of a monitor by async_refresh_connection_token,
\* async_reconnect_monitor or _simple_reconnect, every coordinator (or caller) whose
\* update callback was registered on the monitor's connection before the reconnection
\* still has a callback registered on it, and the new client, connected, hands its zone
\* updates to that connection's callbacks.
C24_CallbacksSurviveReconnection ==
    [][\A t \in Tasks :
         ReconnectionSucceeds(t) =>
            LET r == task[t]
                cn == IF r.op = "poll" THEN connections'[r.m] ELSE r.conn
                cl == conns'[cn].gecko_client IN
            /\ cn # NoConn
            /\ clients'[cl].connected /\ clients'[cl].conn = cn
            /\ \A i \in 1..Len(r.callbacks_before) :
                  \E j \in 1..Len(conns'[cn].update_callbacks) :
                     conns'[cn].update_callbacks[j].owner = r.callbacks_before[i].owner]_vars

====
